---- MODULE Spec2Model ----
(***************************************************************************)
(* A model of the kernel core: the thread scheduler with its condition     *)
(* variables and recursive locks (sys/thread.c), the pipe endpoint         *)
(* (sys/io.c), the physical page allocator, the Sv39 page tables and the   *)
(* address-space operations (sys/memory.c), the process manager            *)
(* (sys/process.c) and the user-mode trap dispatch (sys/excp.c,            *)
(* sys/syscall.c).                                                         *)
(***************************************************************************)
EXTENDS Integers, Sequences, FiniteSets, TLC

(***************************************************************************)
(* Sizes.  The thread table is scaled down from the program's NTHR.        *)
(***************************************************************************)
NTHR == 4
NLOCK == 1
MaxCount == 2

MAIN_TID == 0
IDLE_TID == NTHR - 1

EINVAL == 1
ENOTSUP == 3
EBADFD == 9
EMPROC == 11
EMTHR == 12
ENOMEM == 14

Tids == 0 .. (NTHR - 1)
Locks == 1 .. NLOCK

\* A null struct thread pointer, a null struct lock pointer.
NULL == -1
NoLock == 0

(***************************************************************************)
(* Conditions are named by a pair: the child_exit condition of a thread,   *)
(* the cv of a lock, a condition that a device ISR broadcasts.             *)
(***************************************************************************)
NoCond == <<"none", 0>>
READY_LIST == <<"ready_list", 0>>
ChildExit(t) == <<"child_exit", t>>
LockCv(l) == <<"lock_cv", l>>
DevCond == <<"dev", 0>>
\* Where thread_join lands when it dereferences a null struct thread.
BogusCond == <<"child_exit", NULL>>

\* The two conditions of a pipe.
PipeReadable == <<"pipe_readable", 0>>
PipeWritable == <<"pipe_writable", 0>>

\* The condition process_fork allocates to wait for the child thread t.
ForkDone(t) == <<"fork_done", t>>

\* The condition of the alarm that thread t sleeps on.
AlarmCond(t) == <<"alarm", t>>

ThrConds == {ChildExit(t) : t \in Tids} \cup {LockCv(l) : l \in Locks}
                \cup {DevCond, BogusCond, PipeReadable, PipeWritable}
                \cup {ForkDone(t) : t \in Tids}
                \cup {AlarmCond(t) : t \in Tids}

VARIABLES
    thrtab,         \* thrtab[]: tid -> struct thread, or NULL_THREAD
    ready_list,     \* ready_list: [head, tail]
    conds,          \* the wait_list of every condition: [head, tail]
    TP,             \* the tp register: the running thread
    sie,            \* sstatus.SIE: interrupts enabled
    locks,          \* struct lock: [owner, count, next]
    halted,         \* "no", "success" (halt_success), "panic"
    rv,             \* the value thread_spawn or thread_join returned in the last step
    satp,           \* the active memory space: the page number of its root table
    proctab,        \* proctab[]: index -> struct process, or NoProc
    ioref,          \* the reference count of the device's I/O endpoint
    ioclosed,       \* the endpoint's close operation has run since it was opened
    held,           \* history: acquisitions not yet released, per thread and lock
    pipe,           \* struct pipe: [buf, head, tail, closed_read, closed_write]
    xfer,           \* per thread, the len and total of its pipe_read or pipe_write
    wlog,           \* history: the bytes pipe_write has put into the ring
    rlog,           \* history: the bytes pipe_read has handed to the reader
    free_chunk_list,\* the free chunks, head first: [first_ppn, pagecnt]
    heap_room,      \* how many more chunk nodes the kernel heap can hold
    heap_pages,     \* the pages the kernel heap has taken from the pool
    allocated,      \* history: the page numbers handed out and not freed
    alloc_ret,      \* the page number alloc_phys_pages returned in the last step
    mem,            \* physical memory: page number -> [tbl, val]
    ktfs,           \* the mounted file system, seen through its block cache
    fsret,          \* the last file system call and what it returned
    timer,          \* the timer: [now, sleep_list, stcmp, stie, log]
    vioblk,         \* the block device and its driver
    cache,          \* the block cache
    fdtab,          \* a process's descriptor table and the pipes behind it
    stacks          \* the kernel stack page of every thread slot, and its history

pipeVars == <<pipe, xfer, wlog, rlog>>

allocVars == <<free_chunk_list, heap_room, heap_pages, allocated, alloc_ret>>

fsVars == <<ktfs, fsret>>

devVars == <<timer, vioblk, cache, fdtab, stacks>>

\* What the thread manager does not touch.
otherVars == <<pipeVars, allocVars, mem, fsVars, devVars>>

schedVars == <<thrtab, ready_list, conds, TP, sie, locks, halted, rv, satp, proctab, ioref,
               ioclosed>>

(***************************************************************************)
(* Physical pages.  RAM starts at page RAM_START_PPN.  The kernel image    *)
(* takes the first KimgPages pages: a page of text and the three static    *)
(* page tables; the pages from FreeStart on are the free pool.  A memory   *)
(* space tag is the page number of the root table.                         *)
(***************************************************************************)
RAM_START_PPN == 524288
KimgPages == 4

main_pt2 == RAM_START_PPN + 1
main_pt1_0x80000 == RAM_START_PPN + 2
main_pt0_0x80000 == RAM_START_PPN + 3
main_mtag == main_pt2

FreeStart == RAM_START_PPN + KimgPages

\* Processes and their descriptors.
NPROC == 3
PROCESS_IOMAX == 1

Procs == 0 .. (NPROC - 1)
Fds == 0 .. (PROCESS_IOMAX - 1)

\* A null entry of proctab, and a struct process as kcalloc returns it.
NoProc == [used |-> FALSE, tid |-> 0, mtag |-> 0, iotab |-> [fd \in Fds |-> FALSE]]

ZeroProc == [NoProc EXCEPT !.used = TRUE]

NULL_THREAD ==
    [state |-> "NULL", parent |-> NULL, list_next |-> NULL, wait_cond |-> NoCond,
     lock_list |-> NoLock, started |-> FALSE, spie |-> FALSE, lpie |-> FALSE,
     pc |-> "none", ret |-> "none", cond |-> NoCond, arg |-> 0, any |-> FALSE,
     proc |-> NULL, tfr |-> [a0 |-> 0, sepc |-> 0, tp |-> 0]]

EmptyList == [head |-> NULL, tail |-> NULL]

\* No call of thread_spawn or thread_join returned in the last step.
NoRv == [tid |-> NULL, val |-> 0]

\* The kernel's scheduler state as one value, so that the primitives compose.
Kern ==
    [thrtab |-> thrtab, ready_list |-> ready_list, conds |-> conds, TP |-> TP,
     sie |-> sie, locks |-> locks, halted |-> halted, rv |-> NoRv,
     satp |-> satp, proctab |-> proctab, ioref |-> ioref, ioclosed |-> ioclosed]

SetKern(k) ==
    \E n \in {k} :
        /\ thrtab' = n.thrtab
        /\ ready_list' = n.ready_list
        /\ conds' = n.conds
        /\ TP' = n.TP
        /\ sie' = n.sie
        /\ locks' = n.locks
        /\ halted' = n.halted
        /\ rv' = n.rv
        /\ satp' = n.satp
        /\ proctab' = n.proctab
        /\ ioref' = n.ioref
        /\ ioclosed' = n.ioclosed

(***************************************************************************)
(* With(e, F): F applied to the value of e.  The primitives are written as *)
(* the code's statements in sequence, each on the state the last one left. *)
(***************************************************************************)
With(e, F(_)) == CHOOSE r \in {F(x) : x \in {e}} : TRUE

(***************************************************************************)
(* Thread lists (struct thread_list): linked through list_next.            *)
(***************************************************************************)
ListOf(k, L) == IF L = READY_LIST THEN k.ready_list ELSE k.conds[L]

WithList(k, L, v) ==
    IF L = READY_LIST THEN [k EXCEPT !.ready_list = v]
    ELSE [k EXCEPT !.conds[L] = v]

tlinsert(k, L, thr) ==
    With([k EXCEPT !.thrtab[thr].list_next = NULL], LAMBDA k1 :
    With(ListOf(k1, L), LAMBDA list :
        IF list.tail # NULL
        THEN WithList([k1 EXCEPT !.thrtab[list.tail].list_next = thr],
                      L, [list EXCEPT !.tail = thr])
        ELSE WithList(k1, L, [list EXCEPT !.head = thr, !.tail = thr])))

\* Returns the list's head (or NULL) and the state without it.
tlremove(k, L) ==
    With(k, LAMBDA k0 :
    With(ListOf(k0, L), LAMBDA list :
        IF list.head = NULL THEN [k |-> k0, thr |-> NULL]
        ELSE With(k0.thrtab[list.head].list_next, LAMBDA nh :
             [k |-> [WithList(k0, L, [head |-> nh,
                                      tail |-> IF nh # NULL THEN list.tail ELSE NULL])
                        EXCEPT !.thrtab[list.head].list_next = NULL],
              thr |-> list.head])))

\* The threads reached from the head of a list, in order (at most n links).
RECURSIVE Chain(_, _, _)
Chain(tab, t, n) ==
    IF t = NULL \/ n = 0 THEN << >>
    ELSE <<t>> \o Chain(tab, tab[t].list_next, n - 1)

Members(k, L) == Chain(k.thrtab, ListOf(k, L).head, NTHR + 1)

set_thread_state(k, t, s) == [k EXCEPT !.thrtab[t].state = s]

(***************************************************************************)
(* condition_broadcast: every waiter becomes READY and goes to the tail of *)
(* the ready list.  It runs with interrupts disabled and restores them.    *)
(***************************************************************************)
RECURSIVE condition_broadcast(_, _)
condition_broadcast(k, c) ==
    With(tlremove(k, c), LAMBDA r :
        IF r.thr = NULL THEN r.k
        ELSE With(tlinsert([r.k EXCEPT !.thrtab[r.thr].state = "READY",
                                       !.thrtab[r.thr].wait_cond = NoCond],
                           READY_LIST, r.thr),
                  LAMBDA k1 : condition_broadcast(k1, c)))

(***************************************************************************)
(* running_thread_suspend: the caller goes to the ready list if it is      *)
(* still RUNNING, the head of the ready list (or idle) becomes the running *)
(* thread.  A thread that was suspended before resumes after _thread_swtch *)
(* and restores the interrupt state it saved; a new thread enters its      *)
(* startup trampoline.                                                     *)
(***************************************************************************)
\* The memory space of the thread that runs next: the main space for a
\* thread with no process or with a process in the main space.
next_mspace(k, nextthrd) ==
    With(k.thrtab[nextthrd].proc, LAMBDA proc :
        IF proc = NULL \/ k.proctab[proc].mtag = main_mtag THEN main_mtag
        ELSE k.proctab[proc].mtag)

\* The switch to nextthrd, taken off the ready list in state k.
thread_swtch(k, nextthrd) ==
    With([set_thread_state(k, nextthrd, "RUNNING")
            EXCEPT !.TP = nextthrd, !.satp = next_mspace(k, nextthrd)], LAMBDA k3 :
        IF k3.thrtab[nextthrd].started
        THEN [k3 EXCEPT !.sie = k3.thrtab[nextthrd].spie, !.thrtab[nextthrd].spie = FALSE]
        ELSE [k3 EXCEPT !.thrtab[nextthrd].started = TRUE])

\* running_thread_suspend without its test of the caller's state: the caller
\* goes to the ready list even when it is WAITING or EXITED.
running_thread_suspend_no_test(k) ==
    With([k EXCEPT !.thrtab[k.TP].spie = k.sie, !.sie = FALSE], LAMBDA k1 :
    With(tlinsert(set_thread_state(k1, k1.TP, "READY"), READY_LIST, k1.TP), LAMBDA k2 :
    With(tlremove(k2, READY_LIST), LAMBDA r :
        thread_swtch(r.k, IF r.thr = NULL THEN IDLE_TID ELSE r.thr))))

running_thread_suspend(k) ==
    With([k EXCEPT !.thrtab[k.TP].spie = k.sie, !.sie = FALSE], LAMBDA k1 :
    With(IF k1.thrtab[k1.TP].state = "RUNNING"
         THEN tlinsert(set_thread_state(k1, k1.TP, "READY"), READY_LIST, k1.TP)
         ELSE k1, LAMBDA k2 :
    With(tlremove(k2, READY_LIST), LAMBDA r :
        thread_swtch(r.k, IF r.thr = NULL THEN IDLE_TID ELSE r.thr))))

(***************************************************************************)
(* Calls and returns of the running thread.  pc "run" is a thread outside  *)
(* every scheduler primitive; rv is the value its last call returned.      *)
(***************************************************************************)
Return(k) ==
    With(k, LAMBDA k0 :
        [k0 EXCEPT !.thrtab[k0.TP].pc = "run", !.thrtab[k0.TP].arg = 0,
                   !.thrtab[k0.TP].any = FALSE,
                   !.thrtab[k0.TP].ret = "none", !.thrtab[k0.TP].cond = NoCond,
                   !.thrtab[k0.TP].lpie = FALSE])

ReturnVal(k, v) ==
    With(Return(k), LAMBDA k1 : [k1 EXCEPT !.rv = [tid |-> k1.TP, val |-> v]])

\* condition_wait(c) is entered; the caller continues at pc ret when it returns.
CallCondWait(k, c, ret) ==
    With(k, LAMBDA k0 :
        [k0 EXCEPT !.thrtab[k0.TP].pc = "cw_mark", !.thrtab[k0.TP].cond = c,
                   !.thrtab[k0.TP].ret = ret])

\* condition_wait, first part: assert RUNNING, mark WAITING, record wait_cond.
condition_wait_mark(k) ==
    With(k.TP, LAMBDA t :
        IF k.thrtab[t].state # "RUNNING" THEN [k EXCEPT !.halted = "panic"]
        ELSE [k EXCEPT !.thrtab[t].state = "WAITING",
                       !.thrtab[t].wait_cond = k.thrtab[t].cond,
                       !.thrtab[t].list_next = NULL,
                       !.thrtab[t].pc = "cw_insert"])

\* condition_wait, second part: onto the wait list with interrupts disabled.
condition_wait_insert(k) ==
    With(tlinsert(k, k.thrtab[k.TP].cond, k.TP), LAMBDA k1 :
        [k1 EXCEPT !.thrtab[k1.TP].pc = "cw_suspend"])

\* condition_wait, last part: suspend; the caller resumes at its return pc.
condition_wait_suspend(k) ==
    running_thread_suspend(
        [k EXCEPT !.thrtab[k.TP].pc = k.thrtab[k.TP].ret,
                  !.thrtab[k.TP].ret = "none", !.thrtab[k.TP].cond = NoCond])

(***************************************************************************)
(* create_thread and thread_spawn.                                         *)
(***************************************************************************)
FreeTids(k) == {t \in 1 .. (NTHR - 1) : k.thrtab[t] = NULL_THREAD}

FirstFree(k) == CHOOSE t \in FreeTids(k) : \A u \in FreeTids(k) : t <= u

create_thread(k, tid) ==
    [k EXCEPT !.thrtab[tid] =
        [NULL_THREAD EXCEPT !.state = "UNINITIALIZED", !.parent = k.TP, !.pc = "run"]]

\* thread_spawn up to set_thread_state(child, THREAD_READY).
thread_spawn_create(k) ==
    IF FreeTids(k) = {} THEN ReturnVal(k, -EMTHR)
    ELSE With(FirstFree(k), LAMBDA tid :
         With(set_thread_state(create_thread(k, tid), tid, "READY"), LAMBDA k1 :
            [k1 EXCEPT !.thrtab[k1.TP].pc = "spawn_insert", !.thrtab[k1.TP].arg = tid]))

\* thread_spawn from the insertion into the ready list to its return.
thread_spawn_insert(k) ==
    With(k.thrtab[k.TP].arg, LAMBDA child :
    With(tlinsert(k, READY_LIST, child), LAMBDA k1 :
        ReturnVal([k1 EXCEPT !.conds[ChildExit(child)] = EmptyList,
                             !.thrtab[child].wait_cond = NoCond],
                  child)))

(***************************************************************************)
(* Locks.                                                                  *)
(***************************************************************************)
\* lock_take that does not put the lock on the caller's list.
lock_take_unlisted(k, l) ==
    With(k.TP, LAMBDA t :
        [k EXCEPT !.locks[l].owner = t, !.locks[l].count = 1,
                  !.sie = k.thrtab[t].lpie])

\* The lock taken by the running thread: owner, count 1, head of its lock list.
lock_take(k, l) ==
    With(k.TP, LAMBDA t :
        [k EXCEPT !.locks[l].owner = t, !.locks[l].count = 1,
                  !.locks[l].next = k.thrtab[t].lock_list,
                  !.thrtab[t].lock_list = l,
                  !.sie = k.thrtab[t].lpie])

\* lock_acquire after a wait (and at its first test): wait while owned.
lock_acquire_loop(k) ==
    With(k.thrtab[k.TP].arg, LAMBDA l :
        IF k.locks[l].owner # NULL
        THEN CallCondWait(k, LockCv(l), "la_loop")
        ELSE Return(lock_take(k, l)))

lock_acquire(k, l) ==
    With([k EXCEPT !.thrtab[k.TP].lpie = k.sie, !.sie = FALSE, !.thrtab[k.TP].arg = l],
         LAMBDA k1 :
        IF k1.locks[l].owner = k1.TP
        THEN Return([k1 EXCEPT !.locks[l].count = @ + 1, !.sie = k1.thrtab[k1.TP].lpie])
        ELSE lock_acquire_loop(k1))

\* The lock list that starts at head, without lock l: [head, locks].
RECURSIVE Unlink(_, _, _)
Unlink(lk, head, l) ==
    IF head = l THEN [head |-> lk[l].next, locks |-> [lk EXCEPT ![l].next = NoLock]]
    ELSE With(Unlink(lk, lk[head].next, l), LAMBDA r :
            [head |-> head, locks |-> [r.locks EXCEPT ![head].next = r.head]])

\* The last release: off the owner's lock list, no owner, the waiters woken.
lock_free(k, l) ==
    With(Unlink([k.locks EXCEPT ![l].count = 0], k.thrtab[k.TP].lock_list, l), LAMBDA r :
    With([k EXCEPT !.locks = [r.locks EXCEPT ![l].owner = NULL],
                   !.thrtab[k.TP].lock_list = r.head], LAMBDA k1 :
        Return(condition_broadcast(k1, LockCv(l)))))

\* lock_release as if the lock were not recursive: the first release frees it.
lock_release_first_frees(k, l) ==
    IF k.locks[l].owner # k.TP THEN Return(k)
    ELSE lock_free(k, l)

lock_release(k, l) ==
    IF k.locks[l].owner # k.TP THEN Return(k)
    ELSE IF k.locks[l].count - 1 > 0
    THEN Return([k EXCEPT !.locks[l].count = @ - 1])
    ELSE lock_free(k, l)

(***************************************************************************)
(* thread_exit.                                                            *)
(***************************************************************************)
\* The loop of thread_exit without its condition_broadcast.
RECURSIVE release_all_locks_no_wakeup(_)
release_all_locks_no_wakeup(k) ==
    With(k.thrtab[k.TP].lock_list, LAMBDA l :
        IF l = NoLock THEN k
        ELSE release_all_locks_no_wakeup(
                [k EXCEPT !.thrtab[k.TP].lock_list = k.locks[l].next,
                          !.locks[l].owner = NULL, !.locks[l].count = 0]))

\* The loop of thread_exit: every lock on the caller's list is released.
RECURSIVE release_all_locks(_)
release_all_locks(k) ==
    With(k.thrtab[k.TP].lock_list, LAMBDA l :
        IF l = NoLock THEN k
        ELSE With(condition_broadcast(
                    [k EXCEPT !.thrtab[k.TP].lock_list = k.locks[l].next,
                              !.locks[l].owner = NULL, !.locks[l].count = 0],
                    LockCv(l)),
                  LAMBDA k1 : release_all_locks(k1)))

\* thread_exit up to set_thread_state(TP, THREAD_EXITED).
thread_exit_mark(k) ==
    With(release_all_locks(k), LAMBDA k1 :
        IF k1.TP = MAIN_TID THEN [k1 EXCEPT !.halted = "success"]
        ELSE [set_thread_state(k1, k1.TP, "EXITED") EXCEPT !.thrtab[k1.TP].pc = "exit_bcast"])

thread_exit_broadcast(k) ==
    With(condition_broadcast(k, ChildExit(k.TP)), LAMBDA k1 :
        [k1 EXCEPT !.thrtab[k1.TP].pc = "exit_suspend"])

thread_exit_suspend(k) ==
    running_thread_suspend([k EXCEPT !.thrtab[k.TP].pc = "exited"])

(***************************************************************************)
(* thread_join and thread_reclaim.                                         *)
(***************************************************************************)
thread_reclaim(k, tid) ==
    With(k.thrtab[tid], LAMBDA thr :
        IF ~(0 < tid /\ tid < NTHR /\ thr # NULL_THREAD) \/ thr.state # "EXITED"
        THEN [k EXCEPT !.halted = "panic"]
        ELSE [k EXCEPT !.thrtab = [c \in Tids |->
                IF c = tid THEN NULL_THREAD
                ELSE IF c >= 1 /\ k.thrtab[c] # NULL_THREAD /\ k.thrtab[c].parent = tid
                     THEN [k.thrtab[c] EXCEPT !.parent = thr.parent]
                     ELSE k.thrtab[c]]])

ChildrenOf(k, p) == {i \in Tids : k.thrtab[i] # NULL_THREAD /\ k.thrtab[i].parent = p}

\* thread_join up to its wait loop: the validation and the choice of the child.
thread_join(k, tid) ==
    With(k.TP, LAMBDA t :
    With(IF tid > 0 /\ tid < NTHR /\ k.thrtab[tid] # NULL_THREAD THEN tid ELSE NULL,
         LAMBDA child :
    With(ChildrenOf(k, t), LAMBDA kids :
        IF child # NULL /\ k.thrtab[child].parent # t THEN ReturnVal(k, -EINVAL)
        ELSE IF tid = 0
        THEN IF kids = {} THEN ReturnVal(k, -EINVAL)
             ELSE [k EXCEPT !.thrtab[t].pc = "join_loop",
                            !.thrtab[t].arg = CHOOSE i \in kids : \A j \in kids : i <= j,
                            !.thrtab[t].any = TRUE]
        ELSE IF child = NULL THEN [k EXCEPT !.thrtab[t].pc = "join_null"]
        ELSE [k EXCEPT !.thrtab[t].pc = "join_loop", !.thrtab[t].arg = child])))

\* The wait loop of thread_join and what follows it.
thread_join_loop(k) ==
    With(k.thrtab[k.TP].arg, LAMBDA child :
        IF k.thrtab[child].state # "EXITED"
        THEN CallCondWait(k, ChildExit(child), "join_loop")
        ELSE ReturnVal(thread_reclaim(k, child), child))

(***************************************************************************)
(* The scheduler specification: kernel threads that call the primitives in *)
(* any order, and a device ISR that broadcasts a condition whenever        *)
(* interrupts are enabled.                                                 *)
(***************************************************************************)
Me == thrtab[TP]

AtRun == halted = "no" /\ Me.pc = "run" /\ TP # IDLE_TID

InitThreads ==
    [t \in Tids |->
        IF t = MAIN_TID
        THEN [NULL_THREAD EXCEPT !.state = "RUNNING", !.started = TRUE, !.pc = "run"]
        ELSE IF t = IDLE_TID
        THEN [NULL_THREAD EXCEPT !.state = "READY", !.parent = MAIN_TID, !.pc = "run"]
        ELSE NULL_THREAD]

\* proctab[] as it is initialized: the static main_proc in entry 0.
InitProctab == [i \in Procs |-> IF i = 0 THEN ZeroProc ELSE NoProc]

\* The thread manager after thrmgr_init.
InitKern ==
    /\ thrtab = InitThreads
    /\ ready_list = [head |-> IDLE_TID, tail |-> IDLE_TID]
    /\ conds = [c \in ThrConds |-> EmptyList]
    /\ TP = MAIN_TID
    /\ locks = [l \in Locks |-> [owner |-> NULL, count |-> 0, next |-> NoLock]]
    /\ halted = "no"
    /\ rv = NoRv
    /\ satp = main_mtag
    /\ proctab = InitProctab
    /\ ioref = 0
    /\ ioclosed = FALSE
    /\ held = [t \in Tids |-> [l \in Locks |-> 0]]

\* No pipe has been created.
NoXfer == [len |-> 0, total |-> 0]

\* No file system has been mounted.
NoKtfs ==
    /\ ktfs = [mounted |-> FALSE]
    /\ fsret = [op |-> "none"]

\* The timer, the block device and the block cache are not in use.
NoTimer == timer = [on |-> FALSE]

NoVioblk == vioblk = [on |-> FALSE]

NoCache == cache = [on |-> FALSE]

NoFdtab == fdtab = [on |-> FALSE]

NoStacks == stacks = [on |-> FALSE]

NoDev == NoTimer /\ NoVioblk /\ NoCache /\ NoFdtab /\ NoStacks

NoPipe ==
    /\ pipe = [buf |-> << >>, head |-> 0, tail |-> 0,
               closed_read |-> FALSE, closed_write |-> FALSE]
    /\ xfer = [t \in Tids |-> NoXfer]
    /\ wlog = << >>
    /\ rlog = << >>

(***************************************************************************)
(* Page table entries (sys/memory.c): flags are a set of bits.             *)
(***************************************************************************)
PTE_V == "V"
PTE_R == "R"
PTE_W == "W"
PTE_X == "X"
PTE_U == "U"
PTE_G == "G"
PTE_A == "A"
PTE_D == "D"

MAP_RWUG == {PTE_R, PTE_W, PTE_U, PTE_G}

null_pte == [flags |-> {}, ppn |-> 0]

PTE_VALID(pte) == PTE_V \in pte.flags

PTE_LEAF(pte) == pte.flags \cap {PTE_R, PTE_W, PTE_X} # {}

leaf_pte(pp, rwxug_flags) ==
    [flags |-> rwxug_flags \cup {PTE_A, PTE_D, PTE_V}, ppn |-> pp]

ptab_pte(pt, g_flag) == [flags |-> g_flag \cup {PTE_V}, ppn |-> pt]

\* A page after memset(pp, 0, PAGE_SIZE): no entry valid, every byte 0.
ZeroPage == [tbl |-> << >>, val |-> 0]

\* How many 2MB megapages RAM has (RAM_SIZE / MEGA_SIZE).
RamMegas == 4

PoolPages == 5
HeapInit == 2
NodesPerPage == 2

Pool == FreeStart .. (FreeStart + PoolPages - 1)

\* Memory after memory_init with a pool of n pages: the identity mapping of
\* the MMIO gigapages, of the kernel image by pages and of the rest of RAM
\* by megapages.  Of main_pt0 only the entries of the kernel image are kept.
InitMem(n) ==
    [p \in RAM_START_PPN .. (FreeStart + n - 1) |->
        IF p = main_pt2
        THEN [tbl |-> (0 :> leaf_pte(0, {PTE_R, PTE_W, PTE_G}))
                      @@ (1 :> leaf_pte(RAM_START_PPN \div 2, {PTE_R, PTE_W, PTE_G}))
                      @@ (2 :> ptab_pte(main_pt1_0x80000, {PTE_G})),
              val |-> 0]
        ELSE IF p = main_pt1_0x80000
        THEN [tbl |-> [j \in 0 .. (RamMegas - 1) |->
                        IF j = 0 THEN ptab_pte(main_pt0_0x80000, {PTE_G})
                        ELSE leaf_pte(RAM_START_PPN + 512 * j, {PTE_R, PTE_W, PTE_G})],
              val |-> 0]
        ELSE IF p = main_pt0_0x80000
        THEN [tbl |-> [i \in 0 .. (KimgPages - 1) |->
                        IF i = 0 THEN leaf_pte(RAM_START_PPN, {PTE_R, PTE_X, PTE_G})
                        ELSE leaf_pte(RAM_START_PPN + i, {PTE_R, PTE_W, PTE_G})],
              val |-> 0]
        ELSE ZeroPage]

\* The page allocator and memory after memory_init with a pool of n pages.
Phys0(n) ==
    [list |-> <<[first_ppn |-> FreeStart, pagecnt |-> n]>>, room |-> HeapInit,
     hpages |-> {}, mem |-> InitMem(n), pp |-> NULL, ret |-> 0, stop |-> FALSE]

PhysIs(m) ==
    /\ free_chunk_list = m.list
    /\ heap_room = m.room
    /\ heap_pages = m.hpages
    /\ mem = m.mem
    /\ allocated = {}
    /\ alloc_ret = NULL

InitAllocN(n) == PhysIs(Phys0(n))

InitAlloc == InitAllocN(PoolPages)

InitSched ==
    /\ InitKern
    /\ sie \in BOOLEAN
    /\ NoPipe
    /\ NoKtfs
    /\ NoDev
    /\ InitAlloc

\* A call of lock_acquire that has returned is one more acquisition held.
HeldAfterAcquire(k, l) ==
    IF k.thrtab[TP].pc = "run" THEN [held EXCEPT ![TP][l] = @ + 1] ELSE held

Spawn ==
    /\ AtRun
    /\ SetKern(thread_spawn_create(Kern))
    /\ UNCHANGED <<held, otherVars>>

SpawnInsert ==
    /\ halted = "no" /\ Me.pc = "spawn_insert"
    /\ SetKern(thread_spawn_insert(Kern))
    /\ UNCHANGED <<held, otherVars>>

Yield ==
    /\ AtRun
    /\ SetKern(running_thread_suspend(Kern))
    /\ UNCHANGED <<held, otherVars>>

Exit ==
    /\ AtRun
    /\ SetKern(thread_exit_mark(Kern))
    /\ held' = [held EXCEPT ![TP] = [l \in Locks |-> 0]]
    /\ UNCHANGED otherVars

ExitBroadcast ==
    /\ halted = "no" /\ Me.pc = "exit_bcast"
    /\ SetKern(thread_exit_broadcast(Kern))
    /\ UNCHANGED <<held, otherVars>>

ExitSuspend ==
    /\ halted = "no" /\ Me.pc = "exit_suspend"
    /\ SetKern(thread_exit_suspend(Kern))
    /\ UNCHANGED <<held, otherVars>>

Join(tid) ==
    /\ AtRun
    /\ SetKern(thread_join(Kern, tid))
    /\ UNCHANGED <<held, otherVars>>

JoinLoop ==
    /\ halted = "no" /\ Me.pc = "join_loop"
    /\ SetKern(thread_join_loop(Kern))
    /\ UNCHANGED <<held, otherVars>>

\* child->state read through a null pointer: the kernel faults and panics, or
\* the read yields a value other than THREAD_EXITED and the caller waits on a
\* condition at the null thread that nothing broadcasts.
JoinNullPanic ==
    /\ halted = "no" /\ Me.pc = "join_null"
    /\ SetKern([Kern EXCEPT !.halted = "panic"])
    /\ UNCHANGED <<held, otherVars>>

JoinNullWait ==
    /\ halted = "no" /\ Me.pc = "join_null"
    /\ SetKern(CallCondWait(Kern, BogusCond, "join_null"))
    /\ UNCHANGED <<held, otherVars>>

LockAcquire(l) ==
    /\ AtRun
    /\ locks[l].owner = TP => locks[l].count < MaxCount
    /\ LET k == lock_acquire(Kern, l)
       IN  SetKern(k) /\ held' = HeldAfterAcquire(k, l)
    /\ UNCHANGED otherVars

LockAcquireLoop ==
    /\ halted = "no" /\ Me.pc = "la_loop"
    /\ LET k == lock_acquire_loop(Kern)
       IN  SetKern(k) /\ held' = HeldAfterAcquire(k, Me.arg)
    /\ UNCHANGED otherVars

LockRelease(l) ==
    /\ AtRun
    /\ SetKern(lock_release(Kern, l))
    /\ held' = [held EXCEPT ![TP][l] = IF @ > 0 THEN @ - 1 ELSE 0]
    /\ UNCHANGED otherVars

CondWait ==
    /\ AtRun
    /\ SetKern(CallCondWait(Kern, DevCond, "run"))
    /\ UNCHANGED <<held, otherVars>>

CondWaitMark ==
    /\ halted = "no" /\ Me.pc = "cw_mark"
    /\ SetKern(condition_wait_mark(Kern))
    /\ UNCHANGED <<held, otherVars>>

CondWaitInsert ==
    /\ halted = "no" /\ Me.pc = "cw_insert"
    /\ SetKern(condition_wait_insert(Kern))
    /\ UNCHANGED <<held, otherVars>>

CondWaitSuspend ==
    /\ halted = "no" /\ Me.pc = "cw_suspend"
    /\ SetKern(condition_wait_suspend(Kern))
    /\ UNCHANGED <<held, otherVars>>

\* idle_thread_func: yield while the ready list is not empty ...
IdleYield ==
    /\ halted = "no" /\ TP = IDLE_TID /\ ready_list.head # NULL
    /\ SetKern(running_thread_suspend(Kern))
    /\ UNCHANGED <<held, otherVars>>

\* ... else wfi with interrupts disabled, then enable_interrupts().
IdleWfi ==
    /\ halted = "no" /\ TP = IDLE_TID /\ ready_list.head = NULL /\ ~sie
    /\ SetKern([Kern EXCEPT !.sie = TRUE])
    /\ UNCHANGED <<held, otherVars>>

\* A device interrupt: its ISR broadcasts the device's condition.
IsrBroadcast ==
    /\ halted = "no" /\ sie
    /\ conds[DevCond].head # NULL
    /\ SetKern(condition_broadcast(Kern, DevCond))
    /\ UNCHANGED <<held, otherVars>>

JoinArgs == 0 .. NTHR

ThreadStep ==
    \/ Spawn \/ SpawnInsert \/ Yield
    \/ Exit \/ ExitBroadcast \/ ExitSuspend
    \/ \E tid \in JoinArgs : Join(tid)
    \/ JoinLoop \/ JoinNullPanic \/ JoinNullWait
    \/ \E l \in Locks : LockAcquire(l)
    \/ LockAcquireLoop
    \/ \E l \in Locks : LockRelease(l)
    \/ CondWait \/ CondWaitMark \/ CondWaitInsert \/ CondWaitSuspend
    \/ IdleYield \/ IdleWfi

vars == <<thrtab, ready_list, conds, TP, sie, locks, halted, rv, satp, proctab, ioref,
          ioclosed, held, otherVars>>

NextThr == ThreadStep \/ IsrBroadcast

SpecThr == InitSched /\ [][NextThr]_vars

(***************************************************************************)
(* Properties of the scheduler.                                            *)
(***************************************************************************)
AllLists == {READY_LIST} \cup ThrConds

\* How many times thread t is linked on list L.
Occ(t, L) ==
    LET m == Members(Kern, L)
    IN  Cardinality({i \in DOMAIN m : m[i] = t})

Existing == {t \in Tids : thrtab[t] # NULL_THREAD}

\* No scheduler primitive is in the middle of its update of the running thread.
Quiescent ==
    halted = "no" /\ Me.pc \in {"run", "cw_mark", "join_loop", "la_loop", "join_null"}

\* C1: a thread that has acquired a lock N >= 1 times and not yet released it N
\* times is its owner with count N, and no other thread has an acquisition
\* of that lock: at most one thread is between acquire and release.
C1_LockOwnedUntilReleased ==
    \A l \in Locks : \A t \in Tids :
        held[t][l] > 0 =>
            /\ locks[l].owner = t
            /\ locks[l].count = held[t][l]
            /\ \A u \in Tids \ {t} : held[u][l] = 0

\* A thread holds the lock recursively while another waits in lock_acquire.
C1_Witness ==
    \E l \in Locks : \E t, u \in Tids :
        /\ t # u
        /\ held[t][l] = MaxCount
        /\ thrtab[u].state = "WAITING" /\ thrtab[u].wait_cond = LockCv(l)

\* C2: outside the primitives exactly one thread is RUNNING and it is the
\* current thread; every other thread is READY and once on the ready list,
\* WAITING and once on the wait list of the one condition it waits for, or
\* EXITED and on no list.
C2_OneRunningOthersListed ==
    Quiescent =>
        /\ {t \in Existing : thrtab[t].state = "RUNNING"} = {TP}
        /\ \A L \in AllLists : Occ(TP, L) = 0
        /\ \A t \in Existing \ {TP} :
            \/ /\ thrtab[t].state = "READY"
               /\ Occ(t, READY_LIST) = 1
               /\ \A c \in ThrConds : Occ(t, c) = 0
            \/ /\ thrtab[t].state = "WAITING"
               /\ Occ(t, READY_LIST) = 0
               /\ thrtab[t].wait_cond \in ThrConds
               /\ Occ(t, thrtab[t].wait_cond) = 1
               /\ \A c \in ThrConds \ {thrtab[t].wait_cond} : Occ(t, c) = 0
            \/ /\ thrtab[t].state = "EXITED"
               /\ \A L \in AllLists : Occ(t, L) = 0

\* A quiescent point with a waiting, a ready and an exited thread besides the
\* running one, reached after the ISR woke a waiter.
C2_Witness ==
    /\ Quiescent
    /\ \E a, b, c \in Existing \ {TP} :
        /\ thrtab[a].state = "WAITING" /\ thrtab[a].wait_cond = DevCond
        /\ thrtab[b].state = "READY" /\ b # IDLE_TID
        /\ thrtab[c].state = "EXITED"

\* C5: thread_join(T) of an exited child returns T's id and frees its slot;
\* thread_join(tid) with tid # 0 naming no existing thread (a second join of a
\* reclaimed child among them) or a thread that is not the caller's child
\* returns -EINVAL in that call, with no thread blocked and no state touched.
C5_JoinBadTidReturnsEINVAL ==
    [][ /\ \A tid \in 1 .. NTHR :
            (/\ AtRun
             /\ tid \notin ChildrenOf(Kern, TP)
             /\ Join(tid))
            => /\ rv' = [tid |-> TP, val |-> -EINVAL]
               /\ UNCHANGED <<thrtab, ready_list, conds, TP, locks, halted>>
        /\ (/\ JoinLoop
            /\ ~Me.any
            /\ thrtab[Me.arg].state = "EXITED")
            => /\ rv' = [tid |-> TP, val |-> Me.arg]
               /\ thrtab'[Me.arg] = NULL_THREAD ]_vars

\* The locks on the list that starts at head, at most n of them.
RECURSIVE LockSeq(_, _, _)
LockSeq(lk, head, n) ==
    IF head = NoLock \/ n = 0 THEN << >>
    ELSE <<head>> \o LockSeq(lk, lk[head].next, n - 1)

\* How many times lock l is on the lock list of thread t.
OnList(l, t) ==
    LET q == LockSeq(locks, thrtab[t].lock_list, NLOCK + 1)
    IN  Cardinality({i \in DOMAIN q : q[i] = l})

C21_CountAndList ==
    \A l \in Locks :
        /\ locks[l].count > 0 <=> locks[l].owner # NULL
        /\ \A t \in Existing :
            /\ OnList(l, t) = (IF locks[l].owner = t THEN 1 ELSE 0)
        /\ locks[l].owner # NULL => locks[l].owner \in Existing

C21_NonOwnerRelease ==
    \A l \in Locks :
        (AtRun /\ locks[l].owner # TP /\ LockRelease(l)) =>
            /\ UNCHANGED <<locks, conds>>
            /\ \A t \in Tids : thrtab'[t].lock_list = thrtab[t].lock_list

\* C21: for every lock, count > 0 if and only if the lock has an owner, and
\* the lock is on the lock list of a thread, once, if and only if that thread
\* is its owner; a lock_release by a thread that is not the owner changes
\* neither owner, count, lock list nor wait list.
C21_LockInvariants ==
    []C21_CountAndList /\ [][C21_NonOwnerRelease]_vars

\* The running thread is not the owner of a lock that another thread holds
\* twice and a third thread waits for.
C21_Witness ==
    \E l \in Locks : \E t, u \in Existing :
        /\ AtRun /\ t # TP /\ u # TP
        /\ locks[l].owner = t /\ locks[l].count = 2 /\ OnList(l, t) = 1
        /\ thrtab[u].state = "WAITING" /\ thrtab[u].wait_cond = LockCv(l)

(***************************************************************************)
(* The scheduler under fair scheduling.  Threads spawn, yield, wait for the *)
(* device, exit and join any child.  The processor always executes: the    *)
(* running thread takes its next step, the idle thread runs when no other  *)
(* is ready, a pending device interrupt is served once interrupts are on   *)
(* (WF of the next-state relation).  A thread that stays runnable gives up *)
(* the processor in the end, as the timer interrupt makes a user thread do *)
(* through thread_yield (WF of Yield).                                     *)
(***************************************************************************)
JoinAny == Join(0)

NextJoin ==
    \/ Spawn \/ SpawnInsert \/ Yield
    \/ Exit \/ ExitBroadcast \/ ExitSuspend
    \/ JoinAny \/ JoinLoop
    \/ CondWait \/ CondWaitMark \/ CondWaitInsert \/ CondWaitSuspend
    \/ IdleYield \/ IdleWfi
    \/ IsrBroadcast

SpecJoinFair ==
    InitSched /\ [][NextJoin]_vars /\ WF_vars(NextJoin) /\ WF_vars(Yield)

\* Thread t is inside thread_join(0).
InJoinAny(t) == thrtab[t] # NULL_THREAD /\ thrtab[t].any

\* C6: thread_join(0) waits for any child: once some child of the caller has
\* exited the call eventually returns the id of an exited child, whatever the
\* caller's other children do; with no children it returns -EINVAL.
C6_JoinAnyReturnsExitedChild ==
    /\ \A t \in Tids :
        (/\ halted = "no"
         /\ InJoinAny(t)
         /\ \E c \in ChildrenOf(Kern, t) : thrtab[c].state = "EXITED")
        ~> (\/ halted # "no"
            \/ rv.tid = t /\ rv.val > 0)
    /\ [][ (AtRun /\ ChildrenOf(Kern, TP) = {} /\ JoinAny)
            => rv' = [tid |-> TP, val |-> -EINVAL] ]_vars

(***************************************************************************)
(* Threads that take locks and exit while they own them.  A thread takes   *)
(* its locks in increasing order.  The processor always executes and a     *)
(* running thread gives it up in the end, as in the specification before;  *)
(* a thread that owns a lock does not keep it for ever: it exits (SF of    *)
(* the exit of an owner; no thread calls lock_release here).               *)
(***************************************************************************)
LockAcquireInOrder(l) ==
    /\ \A m \in Locks : locks[m].owner = TP => m <= l
    /\ LockAcquire(l)

OwnerExit == Exit /\ Me.lock_list # NoLock

NextExit ==
    \/ Spawn \/ SpawnInsert \/ Yield
    \/ Exit \/ ExitBroadcast \/ ExitSuspend
    \/ \E l \in Locks : LockAcquireInOrder(l)
    \/ LockAcquireLoop
    \/ CondWaitMark \/ CondWaitInsert \/ CondWaitSuspend
    \/ IdleYield

SpecExitFair ==
    InitSched /\ [][NextExit]_vars /\ WF_vars(NextExit) /\ WF_vars(Yield)
        /\ SF_vars(OwnerExit)

\* The threads that wait in lock_acquire for lock l.
LockWaiters(l) ==
    {t \in Existing : thrtab[t].state = "WAITING" /\ thrtab[t].wait_cond = LockCv(l)}

\* The threads that a release of lock l has woken and that have not run since.
Woken(l) ==
    {t \in Existing : thrtab[t].state = "READY" /\ thrtab[t].pc = "la_loop"
                        /\ thrtab[t].arg = l}

\* C20, the exit: thread_exit takes every lock of the caller off its list and
\* leaves it with no owner and count 0, and every thread that waited for one
\* of them is ready when the caller is marked EXITED.
C20_ExitStep ==
    (Exit /\ halted' = "no") =>
        /\ thrtab'[TP].state = "EXITED"
        /\ thrtab'[TP].lock_list = NoLock
        /\ \A l \in Locks :
            locks[l].owner = TP =>
                /\ locks'[l].owner = NULL /\ locks'[l].count = 0
                /\ conds'[LockCv(l)] = EmptyList
                /\ \A t \in LockWaiters(l) :
                    thrtab'[t].state = "READY" /\ thrtab'[t].wait_cond = NoCond

\* C20, afterwards: the owner of a lock is a thread that exists and has not
\* exited, and so is every thread on a wait list.
C20_NoDanglingThread ==
    /\ \A l \in Locks :
        locks[l].owner # NULL =>
            thrtab[locks[l].owner] # NULL_THREAD /\ thrtab[locks[l].owner].state # "EXITED"
    /\ \A c \in ThrConds : \A i \in DOMAIN Members(Kern, c) :
        /\ thrtab[Members(Kern, c)[i]] # NULL_THREAD
        /\ thrtab[Members(Kern, c)[i]].state # "EXITED"

FdSlots == 3
MaxPipes == 2
FdNums == 0 .. (FdSlots - 1)
PipeIds == 1 .. MaxPipes
NullIo == [kind |-> "null", p |-> 0]
OtherIo == [kind |-> "other", p |-> 0]
NoPipeObj == [alloc |-> FALSE, closed_read |-> FALSE, closed_write |-> FALSE]

\* create_pipe: the pipe and its two endpoints, or nothing when the heap
\* has no room for another pipe.
create_pipe(pipes) ==
    LET free == {p \in PipeIds : ~pipes[p].alloc} IN
    IF free = {} THEN [pipes |-> pipes, p |-> 0]
    ELSE LET p == CHOOSE q \in free : \A r \in free : q <= r IN
         [pipes |-> [pipes EXCEPT ![p] = [NoPipeObj EXCEPT !.alloc = TRUE]],
          p |-> p]

\* ioclose of an endpoint whose reference count is one: pipe_close marks
\* the end closed and frees the pipe when both ends are closed.
ioclose_end(pipes, io) ==
    IF io.kind \notin {"w", "r"} THEN pipes
    ELSE LET q == IF io.kind = "w"
                  THEN [pipes[io.p] EXCEPT !.closed_write = TRUE]
                  ELSE [pipes[io.p] EXCEPT !.closed_read = TRUE] IN
         [pipes EXCEPT ![io.p] =
              IF q.closed_read /\ q.closed_write THEN NoPipeObj ELSE q]

\* The scan of syspipe for free slots, from slot i on.
RECURSIVE syspipe_scan(_, _, _, _)
syspipe_scan(iotab, i, wfd, rfd) ==
    IF i >= FdSlots THEN <<wfd, rfd>>
    ELSE IF wfd < 0 /\ iotab[i] = NullIo
         THEN syspipe_scan(iotab, i + 1, i, rfd)
    ELSE IF rfd < 0 /\ iotab[i] = NullIo
         THEN syspipe_scan(iotab, i + 1, wfd, i)
    ELSE syspipe_scan(iotab, i + 1, wfd, rfd)

syspipe(f, nullptr, wfd0, rfd0) ==
    IF nullptr THEN [f EXCEPT !.ret = -EINVAL]
    ELSE
    LET c == create_pipe(f.pipes) IN
    IF c.p = 0 THEN [f EXCEPT !.ret = -ENOMEM]
    ELSE
    LET wio == [kind |-> "w", p |-> c.p]
        rio == [kind |-> "r", p |-> c.p]
        sc == IF wfd0 < 0 \/ rfd0 < 0
              THEN syspipe_scan(f.iotab, 0, wfd0, rfd0)
              ELSE <<wfd0, rfd0>>
        wfd == sc[1]
        rfd == sc[2]
    IN
    IF \/ wfd < 0 \/ rfd < 0 \/ wfd = rfd
       \/ wfd >= FdSlots \/ rfd >= FdSlots
       \/ f.iotab[wfd] # NullIo \/ f.iotab[rfd] # NullIo
    THEN [f EXCEPT !.pipes = ioclose_end(ioclose_end(c.pipes, wio), rio),
                   !.ret = -EBADFD]
    ELSE [f EXCEPT !.pipes = c.pipes,
                   !.iotab = [f.iotab EXCEPT ![wfd] = wio, ![rfd] = rio],
                   !.wfd = wfd, !.rfd = rfd, !.ret = 0]

sysclose_slot(f, fd) ==
    IF fd < 0 \/ fd >= FdSlots THEN [f EXCEPT !.ret = -EBADFD]
    ELSE IF f.iotab[fd] = NullIo THEN [f EXCEPT !.ret = -EBADFD]
    ELSE [f EXCEPT !.pipes = ioclose_end(f.pipes, f.iotab[fd]),
                   !.iotab[fd] = NullIo, !.ret = 0]

FdUnchanged ==
    UNCHANGED <<schedVars, held, pipeVars, allocVars, mem, fsVars,
                timer, vioblk, cache, stacks>>

\* The caller stores the two requested descriptors and makes the call.
SysPipe(nullptr, wfd, rfd) ==
    /\ fdtab' = syspipe([fdtab EXCEPT !.wfd = wfd, !.rfd = rfd],
                        nullptr, wfd, rfd)
    /\ FdUnchanged

SysClose(fd) ==
    /\ fdtab' = sysclose_slot(fdtab, fd)
    /\ FdUnchanged

FdArgs == -1 .. FdSlots

InitFd ==
    /\ InitKern
    /\ sie = FALSE
    /\ NoPipe
    /\ NoKtfs
    /\ InitAlloc
    /\ NoTimer /\ NoVioblk /\ NoCache /\ NoStacks
    /\ \E t \in [FdNums -> {NullIo, OtherIo}] :
           fdtab = [on |-> TRUE, iotab |-> t,
                    pipes |-> [p \in PipeIds |-> NoPipeObj],
                    wfd |-> 0, rfd |-> 0, ret |-> 0]

NextFd ==
    \/ \E np \in BOOLEAN, wfd \in FdArgs, rfd \in FdArgs : SysPipe(np, wfd, rfd)
    \/ \E fd \in FdArgs : SysClose(fd)

SpecFd == InitFd /\ [][NextFd]_vars

FreeSlots(iotab) == {i \in FdNums : iotab[i] = NullIo}

\* The requested descriptors are valid: each one is negative, or names a
\* free slot of the table, and two non-negative ones differ.
ValidRequest(iotab, wfd, rfd) ==
    /\ wfd < 0 \/ wfd \in FreeSlots(iotab)
    /\ rfd < 0 \/ rfd \in FreeSlots(iotab)
    /\ (wfd >= 0 /\ rfd >= 0) => wfd # rfd

\* C24: the pipe system call installs the write end and the read end of a
\* new pipe in two distinct slots that were free, a non-negative request
\* selecting that slot and a negative one a free slot; it succeeds whenever
\* the requested slots are valid and two slots are free (and a pipe can be
\* allocated), and a failed call leaves the table and the pipes unchanged.
C24_PipeInstallsTwoFreeSlots ==
    [][\A wfd \in FdArgs, rfd \in FdArgs :
         SysPipe(FALSE, wfd, rfd) =>
           /\ (/\ ValidRequest(fdtab.iotab, wfd, rfd)
               /\ Cardinality(FreeSlots(fdtab.iotab)) >= 2
               /\ \E p \in PipeIds : ~fdtab.pipes[p].alloc)
              => fdtab'.ret = 0
           /\ fdtab'.ret = 0 =>
               LET w == fdtab'.wfd
                   r == fdtab'.rfd IN
               /\ w \in FreeSlots(fdtab.iotab) /\ r \in FreeSlots(fdtab.iotab)
               /\ w # r
               /\ wfd >= 0 => w = wfd
               /\ rfd >= 0 => r = rfd
               /\ \E p \in PipeIds :
                     /\ ~fdtab.pipes[p].alloc /\ fdtab'.pipes[p].alloc
                     /\ fdtab'.iotab[w] = [kind |-> "w", p |-> p]
                     /\ fdtab'.iotab[r] = [kind |-> "r", p |-> p]
               /\ \A i \in FdNums \ {w, r} : fdtab'.iotab[i] = fdtab.iotab[i]
           /\ fdtab'.ret # 0 =>
               /\ fdtab'.iotab = fdtab.iotab
               /\ fdtab'.pipes = fdtab.pipes
      ]_vars

(***************************************************************************)
(* The timer (sys/timer.c).  timer.now is the time register, which only    *)
(* goes up; sleep_list holds the alarms of the sleeping threads, the       *)
(* earliest first; the processor takes a timer interrupt when interrupts   *)
(* are enabled (sstatus.SIE and sie.STIE) and the time has reached stcmp.  *)
(* log is the history of the broadcasts: the wake time of the alarm and    *)
(* the time of the broadcast.                                              *)
(***************************************************************************)
MaxTime == 3
MaxSleeps == 3
MaxTcnt == 2
UINT64_MAX == 2147483647

Timer0 ==
    [on |-> TRUE, now |-> 0, sleep_list |-> << >>, stcmp |-> UINT64_MAX, stie |-> TRUE,
     log |-> << >>, calls |-> 0]

\* The insertion of alarm_sleep: before the first alarm that is not earlier.
RECURSIVE sleep_list_insert(_, _)
sleep_list_insert(list, al) ==
    IF list # << >> /\ Head(list).twake < al.twake
    THEN <<Head(list)>> \o sleep_list_insert(Tail(list), al)
    ELSE <<al>> \o list

\* sleep_list_insert that puts the alarm at the head of the list.
alarm_sleep_at_head(k, tm, al_twake, tcnt) ==
    With(IF UINT64_MAX - al_twake < tcnt THEN UINT64_MAX ELSE al_twake + tcnt, LAMBDA twake :
        IF tcnt = 0 \/ twake < tm.now THEN [k |-> Return(k), tm |-> tm]
        ELSE With([twake |-> twake, tid |-> k.TP], LAMBDA al :
             With(<<al>> \o tm.sleep_list, LAMBDA list :
                [k |-> CallCondWait(
                        [k EXCEPT !.thrtab[k.TP].lpie = k.sie, !.sie = FALSE,
                                  !.thrtab[k.TP].arg = twake],
                        AlarmCond(k.TP), "sleep_ret"),
                 tm |-> [tm EXCEPT !.sleep_list = list,
                                   !.stcmp = IF Head(list) = al THEN twake ELSE @]])))

\* alarm_sleep(al, tcnt) up to its condition_wait, for an alarm whose wake
\* time was al_twake.
alarm_sleep(k, tm, al_twake, tcnt) ==
    With(IF UINT64_MAX - al_twake < tcnt THEN UINT64_MAX ELSE al_twake + tcnt, LAMBDA twake :
        IF tcnt = 0 \/ twake < tm.now THEN [k |-> Return(k), tm |-> tm]
        ELSE With([twake |-> twake, tid |-> k.TP], LAMBDA al :
             With(sleep_list_insert(tm.sleep_list, al), LAMBDA list :
                [k |-> CallCondWait(
                        [k EXCEPT !.thrtab[k.TP].lpie = k.sie, !.sie = FALSE,
                                  !.thrtab[k.TP].arg = twake],
                        AlarmCond(k.TP), "sleep_ret"),
                 tm |-> [tm EXCEPT !.sleep_list = list,
                                   !.stcmp = IF Head(list) = al THEN twake ELSE @]])))

\* alarm_sleep that does not enable the timer interrupt when it returns.
alarm_sleep_return_no_stie(k, tm) ==
    [k |-> Return([k EXCEPT !.sie = k.thrtab[k.TP].lpie]),
     tm |-> tm]

\* alarm_sleep after its condition_wait.
alarm_sleep_return(k, tm) ==
    [k |-> Return([k EXCEPT !.sie = k.thrtab[k.TP].lpie]),
     tm |-> [tm EXCEPT !.stie = TRUE]]

\* The loop of handle_timer_interrupt: the alarms at the head of the list
\* whose time has come are broadcast and leave the list.
RECURSIVE wake_expired(_, _)
wake_expired(k, tm) ==
    IF tm.sleep_list = << >> \/ Head(tm.sleep_list).twake > tm.now THEN [k |-> k, tm |-> tm]
    ELSE wake_expired(
            condition_broadcast(k, AlarmCond(Head(tm.sleep_list).tid)),
            [tm EXCEPT !.sleep_list = Tail(@),
                       !.log = Append(@, [twake |-> Head(tm.sleep_list).twake,
                                          tid |-> Head(tm.sleep_list).tid,
                                          at |-> tm.now])])

\* handle_timer_interrupt that leaves the comparator as it was when alarms
\* remain on the list.
handle_timer_interrupt_keep_stcmp(k, tm) ==
    IF tm.sleep_list = << >> THEN [k |-> k, tm |-> tm]
    ELSE With(wake_expired(k, tm), LAMBDA r :
        IF r.tm.sleep_list # << >> THEN r
        ELSE [r EXCEPT !.tm.stcmp = UINT64_MAX, !.tm.stie = FALSE])

handle_timer_interrupt(k, tm) ==
    IF tm.sleep_list = << >> THEN [k |-> k, tm |-> tm]
    ELSE With(wake_expired(k, tm), LAMBDA r :
        IF r.tm.sleep_list # << >>
        THEN [r EXCEPT !.tm.stcmp = Head(r.tm.sleep_list).twake]
        ELSE [r EXCEPT !.tm.stcmp = UINT64_MAX, !.tm.stie = FALSE])

TimerUnchanged ==
    UNCHANGED <<held, pipeVars, allocVars, mem, fsVars, vioblk, cache, fdtab, stacks>>

\* sleep_us: alarm_init, age ticks before alarm_sleep reads the time, and
\* alarm_sleep for tcnt ticks.
Sleep(tcnt, age) ==
    /\ AtRun
    /\ timer.calls < MaxSleeps
    /\ age <= timer.now
    /\ LET r == alarm_sleep(Kern, timer, timer.now - age, tcnt)
       IN  SetKern(r.k) /\ timer' = [r.tm EXCEPT !.calls = @ + 1]
    /\ TimerUnchanged

SleepReturn ==
    /\ halted = "no" /\ Me.pc = "sleep_ret"
    /\ LET r == alarm_sleep_return(Kern, timer)
       IN  SetKern(r.k) /\ timer' = r.tm
    /\ TimerUnchanged

\* The time register goes up.
Tick ==
    /\ halted = "no"
    /\ timer.now < MaxTime
    /\ timer' = [timer EXCEPT !.now = @ + 1]
    /\ UNCHANGED <<schedVars, held, pipeVars, allocVars, mem, fsVars, vioblk, cache, fdtab, stacks>>

TimerIntr ==
    /\ halted = "no" /\ sie /\ timer.stie
    /\ timer.now >= timer.stcmp
    /\ LET r == handle_timer_interrupt(Kern, timer)
       IN  SetKern(r.k) /\ timer' = r.tm
    /\ TimerUnchanged

InitTimer ==
    /\ InitKern
    /\ sie = TRUE
    /\ NoPipe
    /\ NoKtfs
    /\ InitAlloc
    /\ NoVioblk
    /\ NoCache
    /\ NoFdtab
    /\ NoStacks
    /\ timer = Timer0

NextTimer ==
    \/ Spawn \/ SpawnInsert \/ Yield
    \/ \E tcnt \in 0 .. MaxTcnt : \E age \in 0 .. 1 : Sleep(tcnt, age)
    \/ SleepReturn
    \/ CondWaitMark \/ CondWaitInsert \/ CondWaitSuspend
    \/ IdleYield \/ IdleWfi
    \/ Tick
    \/ TimerIntr

SpecTimer == InitTimer /\ [][NextTimer]_vars

\* C22: alarms are woken in the order of their wake times and never early:
\* the conditions are broadcast in non-decreasing order of wake time, none
\* before the time has reached the wake time of its alarm, and no alarm_sleep
\* returns before the wake time of its alarm; the alarm of a thread that
\* sleeps is on the list, which is sorted.
C22_AlarmsInOrderNeverEarly ==
    /\ [](timer.on =>
            /\ \A i, j \in DOMAIN timer.log :
                i < j => timer.log[i].twake <= timer.log[j].twake
            /\ \A i \in DOMAIN timer.log : timer.log[i].twake <= timer.log[i].at
            /\ \A i, j \in DOMAIN timer.sleep_list :
                i < j => timer.sleep_list[i].twake <= timer.sleep_list[j].twake)
    /\ [][ (halted = "no" /\ Me.pc = "sleep_ret" /\ thrtab'[TP].pc = "run")
                => Me.arg <= timer.now ]_vars
    /\ [][ \A t \in Tids :
                (thrtab[t] # NULL_THREAD /\ thrtab[t].wait_cond = AlarmCond(t)
                    /\ thrtab'[t].wait_cond # AlarmCond(t))
                => thrtab[t].arg <= timer.now ]_vars

\* Two threads slept at the same time, the first for longer than the second:
\* the second was broadcast first, and the first later, at its wake time.
C22_Witness ==
    /\ timer.on
    /\ Len(timer.log) = 2
    /\ timer.log[1].tid > timer.log[2].tid
    /\ timer.log[1].twake = 1 /\ timer.log[1].at = 1
    /\ timer.log[2].twake = 2 /\ timer.log[2].at = 2

(***************************************************************************)
(* The VirtIO block driver (dev/vioblk.c): the request slots, the          *)
(* descriptor pool and the rings of one device, the device itself, and the *)
(* threads that read from it.  The device lock is lock DevLock and io_done *)
(* is the condition DevCond.                                               *)
(***************************************************************************)
VIOBLK_DESC_COUNT == 8
DevLock == 1
BlkLen == 2
MaxReqs == 2
EBUSY == 2
Descs == 0 .. (VIOBLK_DESC_COUNT - 1)
NoReq == [in_use |-> FALSE, result |-> 0, status |-> 0]

\* The device after vioblk_attach.
Vioblk0 ==
    [on |-> TRUE,
     desc_free |-> [d \in Descs |-> TRUE],
     desc_next |-> [d \in Descs |-> NULL],
     requests |-> [d \in Descs |-> NoReq],
     status_bytes |-> [d \in Descs |-> 0],
     avail |-> <<>>,
     used |-> <<>>,
     last_used_idx |-> 0,
     interrupt_status |-> 0,
     stage |-> [t \in Tids |-> "none"],
     slot |-> [t \in Tids |-> NULL]]

\* The first n free descriptors from index i on, in order.
RECURSIVE free_chain(_, _, _)
free_chain(desc_free, i, n) ==
    IF i >= VIOBLK_DESC_COUNT \/ n = 0 THEN <<>>
    ELSE IF desc_free[i] THEN <<i>> \o free_chain(desc_free, i + 1, n - 1)
    ELSE free_chain(desc_free, i + 1, n)

\* vioblk_readat from the point where it holds the device lock: the checks
\* of alignment and range, the descriptor chain of header, one data segment
\* and status byte, the avail ring and the notification.
vioblk_readat_submit(k, v, aligned) ==
    IF ~aligned
    THEN [k |-> ReturnVal(lock_release(k, DevLock), -EINVAL),
          v |-> [v EXCEPT !.stage[k.TP] = "none"]]
    ELSE
    LET chain == free_chain(v.desc_free, 0, 3) IN
    IF Len(chain) < 3
    THEN [k |-> ReturnVal(lock_release(k, DevLock), -EBUSY),
          v |-> [v EXCEPT !.stage[k.TP] = "none"]]
    ELSE
    [k |-> [k EXCEPT !.thrtab[k.TP].pc = "vb_test"],
     v |-> [v EXCEPT
              !.requests[chain[1]] = [in_use |-> TRUE, result |-> 0, status |-> 255],
              !.desc_free = [d \in Descs |->
                                IF d \in {chain[1], chain[2], chain[3]}
                                THEN FALSE ELSE v.desc_free[d]],
              !.desc_next = [d \in Descs |->
                                IF d = chain[1] THEN chain[2]
                                ELSE IF d = chain[2] THEN chain[3]
                                ELSE IF d = chain[3] THEN NULL
                                ELSE v.desc_next[d]],
              !.avail = Append(v.avail, chain[1]),
              !.stage[k.TP] = "wait",
              !.slot[k.TP] = chain[1]]]

\* vioblk_readat: the first validation and lock_acquire.
vioblk_readat(k, v, valid, aligned) ==
    IF ~valid THEN [k |-> ReturnVal(k, -EINVAL), v |-> v]
    ELSE
    LET k1 == lock_acquire(k, DevLock) IN
    IF k1.thrtab[k.TP].pc = "run"
    THEN vioblk_readat_submit(k1, v, aligned)
    ELSE [k |-> k1, v |-> [v EXCEPT !.stage[k.TP] = "locking"]]

\* The loop of vioblk_readat that waits for the slot, and its return.
vioblk_readat_wait(k, v) ==
    LET slot == v.slot[k.TP] IN
    IF v.requests[slot].in_use
    THEN [k |-> CallCondWait(k, DevCond, "vb_test"), v |-> v]
    ELSE [k |-> ReturnVal(lock_release(k, DevLock), v.requests[slot].result - 1),
          v |-> [v EXCEPT !.stage[k.TP] = "none", !.slot[k.TP] = NULL]]

\* The chain of descriptors that starts at d goes back to the pool.
RECURSIVE free_descs(_, _, _)
free_descs(desc_free, desc_next, d) ==
    LET f == [desc_free EXCEPT ![d] = TRUE] IN
    IF desc_next[d] # NULL THEN free_descs(f, desc_next, desc_next[d]) ELSE f

\* The loop of vioblk_isr over the new entries of the used ring.
RECURSIVE vioblk_isr_loop(_)
vioblk_isr_loop(v) ==
    IF Len(v.used) = v.last_used_idx THEN v
    ELSE LET e == v.used[v.last_used_idx + 1] IN
         vioblk_isr_loop(
            [v EXCEPT !.requests[e.id] =
                          [in_use |-> FALSE, result |-> e.len,
                           status |-> v.status_bytes[e.id]],
                      !.desc_free = free_descs(v.desc_free, v.desc_next, e.id),
                      !.last_used_idx = @ + 1])

\* lock_release called in the interrupt handler: the interrupted thread is
\* the caller, and goes on where it was interrupted.
isr_lock_release(k, l) ==
    LET k1 == lock_release(k, l) IN
    [k1 EXCEPT !.sie = k.sie,
               !.thrtab[k.TP].pc = k.thrtab[k.TP].pc,
               !.thrtab[k.TP].arg = k.thrtab[k.TP].arg,
               !.thrtab[k.TP].any = k.thrtab[k.TP].any,
               !.thrtab[k.TP].ret = k.thrtab[k.TP].ret,
               !.thrtab[k.TP].cond = k.thrtab[k.TP].cond,
               !.thrtab[k.TP].lpie = k.thrtab[k.TP].lpie]

vioblk_isr(k, v) ==
    IF v.interrupt_status = 0
    THEN [k |-> isr_lock_release(k, DevLock), v |-> v]
    ELSE [k |-> condition_broadcast(k, DevCond),
          v |-> [vioblk_isr_loop(v) EXCEPT !.interrupt_status = 0]]

VioblkUnchanged == UNCHANGED <<pipeVars, allocVars, mem, fsVars, timer, cache, fdtab, stacks>>

HeldNow(k) == [t \in Tids |-> [l \in Locks |->
                 IF k.locks[l].owner = t THEN k.locks[l].count ELSE 0]]

\* A thread outside the driver.
VbIdle == AtRun /\ vioblk.stage[TP] = "none"

VbReadAt(valid, aligned) ==
    /\ VbIdle
    /\ Len(vioblk.avail) < MaxReqs
    /\ LET r == vioblk_readat(Kern, vioblk, valid, aligned)
       IN  SetKern(r.k) /\ vioblk' = r.v /\ held' = HeldNow(r.k)
    /\ VioblkUnchanged

\* lock_acquire has returned in vioblk_readat.
VbLocked(aligned) ==
    /\ AtRun /\ vioblk.stage[TP] = "locking"
    /\ LET r == vioblk_readat_submit(Kern, vioblk, aligned)
       IN  SetKern(r.k) /\ vioblk' = r.v /\ held' = HeldNow(r.k)
    /\ VioblkUnchanged

VbWait ==
    /\ halted = "no" /\ Me.pc = "vb_test"
    /\ LET r == vioblk_readat_wait(Kern, vioblk)
       IN  SetKern(r.k) /\ vioblk' = r.v /\ held' = HeldNow(r.k)
    /\ VioblkUnchanged

VbYield == VbIdle /\ Yield

\* The device serves the next request of the avail ring: it writes the data
\* and the status byte, adds the used element and raises its interrupt.
DevComplete ==
    /\ halted = "no"
    /\ Len(vioblk.used) < Len(vioblk.avail)
    /\ LET id == vioblk.avail[Len(vioblk.used) + 1] IN
       vioblk' = [vioblk EXCEPT !.status_bytes[id] = 0,
                                !.used = Append(@, [id |-> id, len |-> BlkLen + 1]),
                                !.interrupt_status = 1]
    /\ UNCHANGED <<schedVars, held>>
    /\ VioblkUnchanged

\* The external interrupt of the device is taken.
VioblkIsr ==
    /\ halted = "no" /\ sie
    /\ vioblk.interrupt_status # 0
    /\ LET r == vioblk_isr(Kern, vioblk)
       IN  SetKern(r.k) /\ vioblk' = r.v /\ held' = HeldNow(r.k)
    /\ VioblkUnchanged

\* The handler runs while the device's interrupt status is zero.
VioblkIsrNoStatus ==
    /\ halted = "no" /\ sie
    /\ vioblk.interrupt_status = 0
    /\ LET r == vioblk_isr(Kern, vioblk)
       IN  SetKern(r.k) /\ vioblk' = r.v /\ held' = HeldNow(r.k)
    /\ VioblkUnchanged

\* The main thread and a thread it has spawned; the main thread runs with
\* interrupts enabled or disabled.
InitVioblk ==
    /\ \E ie \in BOOLEAN :
       \E k \in {thread_spawn_insert(thread_spawn_create(
                    [thrtab |-> InitThreads,
                     ready_list |-> [head |-> IDLE_TID, tail |-> IDLE_TID],
                     conds |-> [c \in ThrConds |-> EmptyList],
                     TP |-> MAIN_TID, sie |-> ie,
                     locks |-> [l \in Locks |-> [owner |-> NULL, count |-> 0, next |-> NoLock]],
                     halted |-> "no", rv |-> NoRv, satp |-> main_mtag,
                     proctab |-> InitProctab, ioref |-> 0, ioclosed |-> FALSE]))} :
        /\ thrtab = k.thrtab
        /\ ready_list = k.ready_list
        /\ conds = k.conds
        /\ TP = k.TP
        /\ sie = k.sie
        /\ locks = k.locks
        /\ halted = k.halted
        /\ rv = NoRv
        /\ satp = k.satp
        /\ proctab = k.proctab
        /\ ioref = k.ioref
        /\ ioclosed = k.ioclosed
    /\ held = [t \in Tids |-> [l \in Locks |-> 0]]
    /\ NoPipe
    /\ NoKtfs
    /\ InitAlloc
    /\ NoTimer /\ NoCache /\ NoFdtab /\ NoStacks
    /\ vioblk = Vioblk0

NextVioblk ==
    \/ \E valid \in BOOLEAN, aligned \in BOOLEAN : VbReadAt(valid, aligned)
    \/ \E aligned \in BOOLEAN : VbLocked(aligned)
    \/ VbWait
    \/ LockAcquireLoop
    \/ CondWaitMark \/ CondWaitInsert \/ CondWaitSuspend
    \/ VbYield
    \/ IdleYield
    \/ IdleWfi
    \/ DevComplete
    \/ VioblkIsr

SpecVioblk == InitVioblk /\ [][NextVioblk]_vars

\* The processor always executes, the device serves what is in its queue,
\* and an interrupt that is pending while interrupts are enabled is taken.
SpecVioblkFair ==
    /\ SpecVioblk
    /\ WF_vars(NextVioblk) /\ WF_vars(DevComplete) /\ WF_vars(VioblkIsr)

NextVioblkIrq == NextVioblk \/ VioblkIsrNoStatus

SpecVioblkIrq == InitVioblk /\ [][NextVioblkIrq]_vars

\* C26: every request of vioblk_readat that passes validation and that the
\* device completes returns to its caller, wherever the completion interrupt
\* arrives relative to the test of in_use and the condition_wait on io_done
\* (every pending interrupt being taken at some time), and it returns only
\* after the handler has marked its slot complete.
C26_RequestReturns ==
    /\ [][\A t \in Tids :
            (vioblk.stage[t] = "wait" /\ vioblk'.stage[t] = "none")
                => ~vioblk.requests[vioblk.slot[t]].in_use]_vars
    /\ (vioblk.interrupt_status # 0 ~> vioblk.interrupt_status = 0)
          => \A t \in Tids :
                (vioblk.stage[t] = "wait") ~> (vioblk.stage[t] = "none")

\* C27: the interrupt handler changes only the completion state of requests
\* and broadcasts io_done; on every path, the one of an interrupt status of
\* zero included, it leaves the owner and the count of the device lock as
\* they are.
C27_IsrKeepsLock ==
    [][(VioblkIsr \/ VioblkIsrNoStatus)
          => /\ locks' = locks
             /\ \A t \in Tids : thrtab'[t].lock_list = thrtab[t].lock_list]_vars

(***************************************************************************)
(* The block cache (cache.c): a list of at most CACHE_SZ nodes, each with  *)
(* the index of the block it holds, its release tick and its lock.  The     *)
(* callers are threads that give up the processor only where they block:   *)
(* in the read of the backing device and in lock_acquire.                  *)
(***************************************************************************)
CACHE_SZ == 2
NBLK == 3
NCT == 2
MaxRel == 3
CBlocks == 0 .. (NBLK - 1)
CThreads == 1 .. NCT
\* What a word of memory that kmalloc returned may hold besides a block index.
Garbage == NBLK

NoCT == [pc |-> "idle", pos |-> 0, node |-> 0]

\* The cache after create_cache; block b of the backing device holds b.
Cache0 ==
    [on |-> TRUE,
     nodes |-> <<>>,
     last_release |-> 0,
     disk |-> [b \in CBlocks |-> b],
     th |-> [t \in CThreads |-> NoCT],
     got |-> [t \in CThreads |-> {}],
     victim |-> 0]

\* The search loop of cache_get_block over all nodes but the last, from node
\* i with LRU_node lru: the node that holds pos, or the LRU_node it ends with.
RECURSIVE cache_scan(_, _, _, _)
cache_scan(nodes, i, lru, pos) ==
    IF i >= Len(nodes) \/ i > CACHE_SZ THEN [hit |-> 0, lru |-> lru]
    ELSE IF nodes[i].idx = pos THEN [hit |-> i, lru |-> lru]
    ELSE cache_scan(nodes, i + 1,
                    IF nodes[i].release < nodes[lru].release THEN i ELSE lru, pos)

\* lock_acquire of the lock of node n by thread t: taken, or t has to wait.
node_lock_acquire(c, t, n, pos) ==
    IF c.nodes[n].owner = t
    THEN [c EXCEPT !.nodes[n].count = @ + 1,
                   !.th[t] = NoCT, !.got[t] = @ \cup {[node |-> n, pos |-> pos]}]
    ELSE IF c.nodes[n].owner = 0
    THEN [c EXCEPT !.nodes[n].owner = t, !.nodes[n].count = 1,
                   !.th[t] = NoCT, !.got[t] = @ \cup {[node |-> n, pos |-> pos]}]
    ELSE [c EXCEPT !.th[t] = [pc |-> "lock", pos |-> pos, node |-> n]]

\* cache_get_block up to the point where it blocks or returns.  A node that
\* kmalloc has just returned holds idx and release as they were in memory.
cache_get_block(c, t, pos, gidx, grel) ==
    LET fresh == [idx |-> gidx, release |-> grel, owner |-> 0, count |-> 0,
                  data |-> Garbage]
    IN
    IF c.nodes = <<>>
    THEN [c EXCEPT !.nodes = <<fresh>>, !.victim = 0,
                   !.th[t] = [pc |-> "read", pos |-> pos, node |-> 1]]
    ELSE
    LET r == cache_scan(c.nodes, 1, 1, pos)
        last == Len(c.nodes)
    IN
    IF r.hit # 0 THEN node_lock_acquire([c EXCEPT !.victim = 0], t, r.hit, pos)
    ELSE IF c.nodes[last].idx = pos
    THEN node_lock_acquire([c EXCEPT !.victim = 0], t, last, pos)
    ELSE IF Len(c.nodes) = CACHE_SZ
    THEN [c EXCEPT !.victim = r.lru,
                   !.th[t] = [pc |-> "read", pos |-> pos, node |-> r.lru]]
    ELSE [c EXCEPT !.nodes = Append(c.nodes, fresh), !.victim = 0,
                   !.th[t] = [pc |-> "read", pos |-> pos, node |-> last + 1]]

\* cache_get_block after ioreadat: the node is stamped and then locked.
cache_get_block_read(c, t) ==
    LET n == c.th[t].node
        pos == c.th[t].pos
    IN
    node_lock_acquire(
        [c EXCEPT !.nodes[n].data = c.disk[pos],
                  !.nodes[n].idx = pos,
                  !.nodes[n].release = UINT64_MAX,
                  !.victim = 0],
        t, n, pos)

\* cache_release_block of the buffer of node n by thread t.
cache_release_block(c, t, n, dirty) ==
    LET c1 == IF dirty THEN [c EXCEPT !.disk[c.nodes[n].idx] = c.nodes[n].data]
              ELSE c
        c2 == [c1 EXCEPT !.nodes[n].release = c.last_release,
                         !.last_release = @ + 1,
                         !.victim = 0,
                         !.got[t] = {h \in @ : h.node # n}]
    IN
    IF c2.nodes[n].owner # t THEN c2
    ELSE IF c2.nodes[n].count > 1 THEN [c2 EXCEPT !.nodes[n].count = @ - 1]
    ELSE [c2 EXCEPT !.nodes[n].count = 0, !.nodes[n].owner = 0]

CacheUnchanged ==
    UNCHANGED <<schedVars, held, pipeVars, allocVars, mem, fsVars,
                timer, vioblk, fdtab, stacks>>

\* Thread t asks for a block that it does not hold.
CacheGet(t, pos) ==
    /\ cache.th[t].pc = "idle"
    /\ \A h \in cache.got[t] : h.pos # pos
    /\ \E gidx \in CBlocks \cup {Garbage} : \E grel \in {0, UINT64_MAX} :
          cache' = cache_get_block(cache, t, pos, gidx, grel)
    /\ CacheUnchanged

\* The read of the backing device is done.
CacheRead(t) ==
    /\ cache.th[t].pc = "read"
    /\ cache' = cache_get_block_read(cache, t)
    /\ CacheUnchanged

\* The lock that t waits for has been released: lock_acquire goes on.
CacheLock(t) ==
    /\ cache.th[t].pc = "lock"
    /\ cache.nodes[cache.th[t].node].owner = 0
    /\ cache' = node_lock_acquire(cache, t, cache.th[t].node, cache.th[t].pos)
    /\ CacheUnchanged

CacheRelease(t, n, dirty) ==
    /\ cache.th[t].pc = "idle"
    /\ \E h \in cache.got[t] : h.node = n
    /\ cache.last_release < MaxRel
    /\ cache' = cache_release_block(cache, t, n, dirty)
    /\ CacheUnchanged

InitCache ==
    /\ InitKern
    /\ sie = FALSE
    /\ NoPipe
    /\ NoKtfs
    /\ InitAlloc
    /\ NoTimer /\ NoVioblk /\ NoFdtab /\ NoStacks
    /\ cache = Cache0

NextCache ==
    \/ \E t \in CThreads, pos \in CBlocks : CacheGet(t, pos)
    \/ \E t \in CThreads : CacheRead(t)
    \/ \E t \in CThreads : CacheLock(t)
    \/ \E t \in CThreads, n \in 1 .. CACHE_SZ, dirty \in BOOLEAN :
          CacheRelease(t, n, dirty)

SpecCache == InitCache /\ [][NextCache]_vars

\* The nodes that have been stamped with a block.
Stamped == {n \in 1 .. Len(cache.nodes) : cache.nodes[n].data # Garbage}

\* C28: for any interleaving of cache_get_block and cache_release_block, a
\* block that cache_get_block(pos) has returned is the buffer of the node
\* stamped with pos, it holds the content of backing block pos, and its
\* caller has the node to itself until its release; no two nodes hold the
\* same block index.
C28_BlockIsExclusive ==
    /\ \A t \in CThreads : \A h \in cache.got[t] :
          /\ cache.nodes[h.node].idx = h.pos
          /\ cache.nodes[h.node].data = cache.disk[h.pos]
          /\ cache.nodes[h.node].owner = t
          /\ \A u \in CThreads \ {t} : \A g \in cache.got[u] : g.node # h.node
    /\ \A m \in Stamped : \A n \in Stamped :
          cache.nodes[m].idx = cache.nodes[n].idx => m = n

\* The nodes whose lock is free.
Unlocked(c) == {n \in 1 .. Len(c.nodes) : c.nodes[n].owner = 0}

\* C29: when the cache is full and the block is not cached, the victim is
\* the node with the smallest release tick among the nodes that are not
\* locked; a node that a thread has obtained and not yet released is never
\* chosen, stamped again or overwritten.
C29_VictimIsUnlockedLru ==
    /\ cache.victim # 0 =>
          /\ cache.victim \in Unlocked(cache)
          /\ \A n \in Unlocked(cache) :
                cache.nodes[cache.victim].release <= cache.nodes[n].release
          /\ \A t \in CThreads : \A h \in cache.got[t] : h.node # cache.victim
    /\ \A t \in CThreads : \A h \in cache.got[t] :
          /\ cache.nodes[h.node].idx = h.pos
          /\ cache.nodes[h.node].data = h.pos \/ cache.nodes[h.node].data = cache.disk[h.pos]

(***************************************************************************)
(* The pipe (sys/io.c): a ring of PIPE_BUFSZ bytes between one writer and  *)
(* one reader.  The writer is the main thread, the reader the thread it    *)
(* spawned; both are in the kernel while they are in pipe_read or          *)
(* pipe_write, where only condition_wait gives up the processor.           *)
(***************************************************************************)
PIPE_BUFSZ == 3
MaxBytes == 5
MaxLen == 3

EPIPE == 15

WRITER == MAIN_TID
READER == 1

Slots == 0 .. (PIPE_BUFSZ - 1)

\* What the page of the ring may hold before anything is written to it.
FreshBytes == {0, 255}

\* The n-th byte of the writer's data.
DataByte(n) == n % 256

PipeState == [k |-> Kern, pipe |-> pipe, xfer |-> xfer, wlog |-> wlog, rlog |-> rlog]

SetPipe(s) ==
    \E n \in {s} :
        /\ SetKern(n.k)
        /\ pipe' = n.pipe
        /\ xfer' = n.xfer
        /\ wlog' = n.wlog
        /\ rlog' = n.rlog

pipe_empty(p) == p.head = p.tail

\* The test of pipe_write with the wrap-around forgotten.
pipe_full_no_wrap(p) == p.head + 1 = p.tail

pipe_full(p) == (p.head + 1) % PIPE_BUFSZ = p.tail

\* The current thread enters pipe_read or pipe_write with len bytes to move.
pipe_enter(s, len, loop) ==
    [s EXCEPT !.xfer[s.k.TP] = [len |-> len, total |-> 0],
              !.k.thrtab[s.k.TP].pc = loop]

\* pipe_read or pipe_write returns v.
pipe_return(s, v) ==
    [s EXCEPT !.k = ReturnVal(s.k, v), !.xfer[s.k.TP] = NoXfer]

\* One turn of the outer loop of pipe_write.
pipe_write_loop(s) ==
    With(s.k.TP, LAMBDA t :
    With(s.xfer[t], LAMBDA x :
        IF x.len <= 0 THEN pipe_return(s, x.total)
        ELSE IF pipe_full(s.pipe)
        THEN IF s.pipe.closed_read THEN pipe_return(s, -EPIPE)
             ELSE [s EXCEPT !.k = CallCondWait(s.k, PipeWritable, "pw_loop")]
        ELSE [s EXCEPT !.pipe.buf[s.pipe.head] = DataByte(Len(s.wlog) + 1),
                       !.pipe.head = (s.pipe.head + 1) % PIPE_BUFSZ,
                       !.wlog = Append(s.wlog, DataByte(Len(s.wlog) + 1)),
                       !.xfer[t] = [len |-> x.len - 1, total |-> x.total + 1],
                       !.k = condition_broadcast(s.k, PipeReadable)]))

\* One turn of the outer loop of pipe_read.
pipe_read_loop(s) ==
    With(s.k.TP, LAMBDA t :
    With(s.xfer[t], LAMBDA x :
        IF x.len <= 0 THEN pipe_return(s, x.total)
        ELSE IF pipe_empty(s.pipe)
        THEN IF s.pipe.closed_write THEN pipe_return(s, x.total)
             ELSE [s EXCEPT !.k = CallCondWait(s.k, PipeReadable, "pr_loop")]
        ELSE [s EXCEPT !.rlog = Append(s.rlog, s.pipe.buf[s.pipe.tail]),
                       !.pipe.tail = (s.pipe.tail + 1) % PIPE_BUFSZ,
                       !.xfer[t] = [len |-> x.len - 1, total |-> x.total + 1],
                       !.k = condition_broadcast(s.k, PipeWritable)]))

\* pipe_close of the writer end.
pipe_close_writer(s) ==
    [s EXCEPT !.pipe.closed_write = TRUE,
              !.k = Return(condition_broadcast(s.k, PipeReadable))]

\* pipe_close of the reader end.
pipe_close_reader(s) ==
    [s EXCEPT !.pipe.closed_read = TRUE,
              !.k = Return(condition_broadcast(s.k, PipeWritable))]

\* The main thread has created the pipe and spawned the reader.
InitPipe ==
    /\ \E k \in {thread_spawn_insert(thread_spawn_create(
                    [thrtab |-> InitThreads,
                     ready_list |-> [head |-> IDLE_TID, tail |-> IDLE_TID],
                     conds |-> [c \in ThrConds |-> EmptyList],
                     TP |-> MAIN_TID, sie |-> FALSE,
                     locks |-> [l \in Locks |-> [owner |-> NULL, count |-> 0, next |-> NoLock]],
                     halted |-> "no", rv |-> NoRv, satp |-> main_mtag,
                     proctab |-> InitProctab, ioref |-> 0, ioclosed |-> FALSE]))} :
        /\ thrtab = k.thrtab
        /\ ready_list = k.ready_list
        /\ conds = k.conds
        /\ TP = k.TP
        /\ sie = k.sie
        /\ locks = k.locks
        /\ halted = k.halted
        /\ rv = NoRv
        /\ satp = k.satp
        /\ proctab = k.proctab
        /\ ioref = k.ioref
        /\ ioclosed = k.ioclosed
    /\ held = [t \in Tids |-> [l \in Locks |-> 0]]
    /\ pipe \in [buf : [Slots -> FreshBytes], head : {0}, tail : {0},
                 closed_read : {FALSE}, closed_write : {FALSE}]
    /\ xfer = [t \in Tids |-> NoXfer]
    /\ wlog = << >>
    /\ rlog = << >>
    /\ NoKtfs
    /\ NoDev
    /\ InitAlloc

PipeWrite(len) ==
    /\ AtRun /\ TP = WRITER
    /\ ~pipe.closed_write
    /\ Len(wlog) + len <= MaxBytes
    /\ SetPipe(pipe_write_loop(pipe_enter(PipeState, len, "pw_loop")))
    /\ UNCHANGED <<held, allocVars, mem, fsVars, devVars>>

PipeWriteLoop ==
    /\ halted = "no" /\ Me.pc = "pw_loop"
    /\ SetPipe(pipe_write_loop(PipeState))
    /\ UNCHANGED <<held, allocVars, mem, fsVars, devVars>>

PipeRead(len) ==
    /\ AtRun /\ TP = READER
    /\ SetPipe(pipe_read_loop(pipe_enter(PipeState, len, "pr_loop")))
    /\ UNCHANGED <<held, allocVars, mem, fsVars, devVars>>

PipeReadLoop ==
    /\ halted = "no" /\ Me.pc = "pr_loop"
    /\ SetPipe(pipe_read_loop(PipeState))
    /\ UNCHANGED <<held, allocVars, mem, fsVars, devVars>>

PipeCloseWriter ==
    /\ AtRun /\ TP = WRITER
    /\ ~pipe.closed_write
    /\ SetPipe(pipe_close_writer(PipeState))
    /\ UNCHANGED <<held, allocVars, mem, fsVars, devVars>>

Lens == 0 .. MaxLen

\* The reader and the writer never wait at the same time, so the idle thread
\* always finds a ready thread and never reaches its wfi.
NextPipe ==
    \/ \E len \in Lens : PipeWrite(len)
    \/ PipeWriteLoop
    \/ \E len \in Lens : PipeRead(len)
    \/ PipeReadLoop
    \/ PipeCloseWriter
    \/ Yield
    \/ CondWaitMark \/ CondWaitInsert \/ CondWaitSuspend
    \/ IdleYield

SpecPipe == InitPipe /\ [][NextPipe]_vars

\* The processor always executes: the running thread takes its next step and
\* the idle thread runs when no other is ready.
SpecPipeFair == SpecPipe /\ WF_vars(NextPipe)

\* A pipe whose reader closes its end: the reader reads while its end is
\* open, and the writer goes on writing after the reader has closed.
PipeCloseReader ==
    /\ AtRun /\ TP = READER
    /\ ~pipe.closed_read
    /\ SetPipe(pipe_close_reader(PipeState))
    /\ UNCHANGED <<held, allocVars, mem, fsVars, devVars>>

PipeReadOpen(len) == ~pipe.closed_read /\ PipeRead(len)

NextPipeClose ==
    \/ \E len \in Lens : PipeWrite(len)
    \/ PipeWriteLoop
    \/ \E len \in Lens : PipeReadOpen(len)
    \/ PipeReadLoop
    \/ PipeCloseReader
    \/ Yield
    \/ CondWaitMark \/ CondWaitInsert \/ CondWaitSuspend
    \/ IdleYield

SpecPipeClose == InitPipe /\ [][NextPipeClose]_vars

\* C23: a pipe write after the reader end has been closed returns -EPIPE,
\* whether the ring is full, partly filled or empty, and stores no byte; a
\* writer that waits on a full ring when the reader end is closed is made
\* ready.
C23_WriteAfterReaderClosed ==
    [][ /\ pipe.closed_read => wlog' = wlog
        /\ (/\ pipe.closed_read /\ halted = "no" /\ TP = WRITER
            /\ thrtab'[WRITER].pc = "run"
            /\ \/ Me.pc = "pw_loop"
               \/ Me.pc = "run" /\ \E len \in 1 .. MaxLen : PipeWrite(len))
            => rv' = [tid |-> WRITER, val |-> -EPIPE]
        /\ (PipeCloseReader /\ thrtab[WRITER].wait_cond = PipeWritable)
            => thrtab'[WRITER].state = "READY" ]_vars

\* The bytes in the ring, oldest first.
RECURSIVE RingSeq(_, _, _)
RingSeq(p, i, n) ==
    IF i = p.head \/ n = 0 THEN << >>
    ELSE <<p.buf[i]>> \o RingSeq(p, (i + 1) % PIPE_BUFSZ, n - 1)

InRing == RingSeq(pipe, pipe.tail, PIPE_BUFSZ)

IsPrefix(a, b) == Len(a) <= Len(b) /\ \A i \in 1 .. Len(a) : a[i] = b[i]

\* The reader is inside pipe_read (waiting in it or not).
ReaderInRead ==
    thrtab[READER].pc = "pr_loop" \/ thrtab[READER].ret = "pr_loop"

\* C3: what the reader has read is a prefix of what the writer has written,
\* and together with the bytes still in the ring it is all that was written
\* (no loss, duplication or reordering).
C3_ReadIsPrefixOfWritten ==
    /\ IsPrefix(rlog, wlog)
    /\ rlog \o InRing = wlog

\* C3: with the writer end closed and the ring empty, pipe_read returns at
\* once what it has read so far, 0 for a new read, instead of blocking; and
\* a read of len >= 1 returns 0 only then, when the reader has every byte.
C3_EofInsteadOfBlocking ==
    [][ /\ (pipe.closed_write /\ pipe_empty(pipe)) =>
            /\ \A len \in 1 .. MaxLen :
                PipeRead(len) => rv' = [tid |-> READER, val |-> 0]
            /\ PipeReadLoop => /\ rv' = [tid |-> READER, val |-> xfer[READER].total]
                               /\ thrtab'[READER].pc = "run"
        /\ \A len \in 1 .. MaxLen :
            (PipeRead(len) /\ rv' = [tid |-> READER, val |-> 0])
                => (pipe.closed_write /\ rlog = wlog) ]_vars

\* C3: the reader's reads return a prefix of the writer's writes, and once
\* the writer end is closed after N bytes a pipe_read in progress returns,
\* the reader has N bytes when a read returns 0, and a read of the drained
\* pipe returns 0 without blocking.
C3_PipeDelivers ==
    /\ []C3_ReadIsPrefixOfWritten
    /\ C3_EofInsteadOfBlocking
    /\ (pipe.closed_write /\ ReaderInRead) ~> (rv.tid = READER)

\* The writer closed after MaxBytes bytes that wrapped around the ring, the
\* reader has read them all and its last read returned 0.
C3_Witness ==
    /\ pipe.closed_write
    /\ Len(wlog) = MaxBytes /\ MaxBytes > PIPE_BUFSZ
    /\ rlog = wlog
    /\ rv = [tid |-> READER, val |-> 0]

(***************************************************************************)
(* The physical page allocator (sys/memory.c) and the kernel heap under it *)
(* (sys/heap0.c).  The allocator's state is bundled in a record, as the    *)
(* scheduler's is; pp is the pointer a call returns and stop is set when   *)
(* the kernel has stopped in the call.                                     *)
(***************************************************************************)
MaxAlloc == 3

Phys ==
    [list |-> free_chunk_list, room |-> heap_room, hpages |-> heap_pages,
     mem |-> mem, pp |-> NULL, ret |-> 0, stop |-> FALSE]

SetPhys(m) ==
    \E n \in {m} :
        /\ free_chunk_list' = n.list
        /\ heap_room' = n.room
        /\ heap_pages' = n.hpages
        /\ mem' = n.mem

\* The chunk alloc_phys_pages picks: the first of the smallest that fit, or 0.
BestFit(list, cnt) ==
    With({i \in 1 .. Len(list) : list[i].pagecnt >= cnt}, LAMBDA fit :
        IF fit = {} THEN 0
        ELSE CHOOSE i \in fit :
                \A j \in fit : \/ list[i].pagecnt < list[j].pagecnt
                               \/ list[i].pagecnt = list[j].pagecnt /\ i <= j)

RemoveAt(list, i) == SubSeq(list, 1, i - 1) \o SubSeq(list, i + 1, Len(list))

\* cnt pages split from the front of chunk c: what stays on the list.
chunk_split(c, cnt) ==
    [first_ppn |-> c.first_ppn + cnt, pagecnt |-> c.pagecnt - cnt]

\* alloc_phys_pages(cnt): pp is the first page, or NULL.  kfree of the node
\* of an exact fit gives the heap nothing back (heap_free_actual only marks
\* the block).
alloc_phys_pages(m, cnt) ==
    IF cnt = 0 THEN [m EXCEPT !.pp = NULL]
    ELSE With(BestFit(m.list, cnt), LAMBDA best :
        IF best = 0 THEN [m EXCEPT !.pp = NULL]
        ELSE IF m.list[best].pagecnt = cnt
        THEN [m EXCEPT !.list = RemoveAt(m.list, best),
                       !.pp = m.list[best].first_ppn]
        ELSE [m EXCEPT !.list[best] = chunk_split(m.list[best], cnt),
                       !.pp = m.list[best].first_ppn])

\* kmalloc of one chunk node.  A heap with no room takes a page from the
\* pool and moves to it; with no page to take it computes the block from a
\* null page pointer, and the stores to that block either fault in
\* supervisor mode (the kernel stops) or land.
kmalloc_node(m, lands) ==
    IF m.room > 0 THEN [m EXCEPT !.room = m.room - 1]
    ELSE With(alloc_phys_pages(m, 1), LAMBDA m1 :
        IF m1.pp # NULL
        THEN [m1 EXCEPT !.room = NodesPerPage - 1,
                        !.hpages = m1.hpages \cup {m1.pp}]
        ELSE [m1 EXCEPT !.stop = ~lands])

\* free_phys_pages(pp, cnt): a new chunk at the head, no coalescing.
free_phys_pages(m, pp, cnt, lands) ==
    IF pp = NULL \/ cnt = 0 THEN m
    ELSE With(kmalloc_node(m, lands), LAMBDA m1 :
        IF m1.stop THEN m1
        ELSE [m1 EXCEPT !.list = <<[first_ppn |-> pp, pagecnt |-> cnt]>> \o m1.list])

RECURSIVE SumCounts(_)
SumCounts(list) ==
    IF list = << >> THEN 0 ELSE Head(list).pagecnt + SumCounts(Tail(list))

free_phys_page_count == SumCounts(free_chunk_list)

ChunkPages(c) == c.first_ppn .. (c.first_ppn + c.pagecnt - 1)

AllocPages(cnt) ==
    /\ halted = "no"
    /\ \E r \in {alloc_phys_pages(Phys, cnt)} :
        /\ SetPhys(r)
        /\ alloc_ret' = r.pp
        /\ allocated' = IF r.pp = NULL THEN allocated
                        ELSE allocated \cup (r.pp .. (r.pp + cnt - 1))
    /\ UNCHANGED <<schedVars, held, pipeVars, fsVars, devVars>>

\* A range of allocated pages is freed, or the call is one free_phys_pages
\* ignores: a null pointer or no pages.
FreePages(pp, cnt) ==
    /\ halted = "no"
    /\ \/ pp # NULL /\ cnt > 0 /\ (pp .. (pp + cnt - 1)) \subseteq allocated
       \/ pp = NULL
       \/ cnt = 0
    /\ \E lands \in BOOLEAN : \E r \in {free_phys_pages(Phys, pp, cnt, lands)} :
        /\ SetPhys(r)
        /\ halted' = IF r.stop THEN "panic" ELSE halted
    /\ allocated' = IF pp = NULL THEN allocated ELSE allocated \ (pp .. (pp + cnt - 1))
    /\ alloc_ret' = NULL
    /\ UNCHANGED <<thrtab, ready_list, conds, TP, sie, locks, rv, satp, proctab, ioref,
                   ioclosed, held, pipeVars, fsVars, devVars>>

InitAllocSpec ==
    /\ InitKern
    /\ sie = FALSE
    /\ NoPipe
    /\ NoKtfs
    /\ NoDev
    /\ InitAlloc

NextAlloc ==
    \/ \E cnt \in 0 .. MaxAlloc : AllocPages(cnt)
    \/ \E pp \in Pool \cup {NULL} : \E cnt \in 0 .. MaxAlloc : FreePages(pp, cnt)

SpecAlloc == InitAllocSpec /\ [][NextAlloc]_vars

\* The pages on the free list and the allocated pages are the pool: their
\* counts add up to the pool size, and no page is in two free chunks or in a
\* free chunk and allocated.
PagesConserved ==
    /\ free_phys_page_count + Cardinality(allocated) = PoolPages
    /\ \A i \in 1 .. Len(free_chunk_list) :
        /\ free_chunk_list[i].pagecnt > 0
        /\ ChunkPages(free_chunk_list[i]) \subseteq Pool
        /\ ChunkPages(free_chunk_list[i]) \cap allocated = {}
        /\ \A j \in 1 .. Len(free_chunk_list) :
            i # j => ChunkPages(free_chunk_list[i]) \cap ChunkPages(free_chunk_list[j]) = {}

\* An allocation that returns NULL leaves the free list as it was, and one
\* that succeeds returns pages that were free.
FailedAllocChangesNothing ==
    [][ \A cnt \in 0 .. MaxAlloc :
            AllocPages(cnt) =>
                /\ alloc_ret' = NULL => free_chunk_list' = free_chunk_list
                /\ alloc_ret' # NULL =>
                    /\ cnt > 0
                    /\ (alloc_ret' .. (alloc_ret' + cnt - 1)) \cap allocated = {}
                    /\ free_phys_page_count' = free_phys_page_count - cnt ]_vars

\* C10: after any sequence of allocations and of frees of allocated ranges,
\* the free pages and the allocated pages add up to the initial pool, no
\* free chunk overlaps another or an allocated range, and an allocation
\* that fails returns NULL and changes nothing.
C10_AllocatorConserves ==
    []PagesConserved /\ FailedAllocChangesNothing

\* The conservation that does hold counts the pages the heap has taken for
\* chunk nodes, and holds while the kernel runs.
PagesConservedWithHeap ==
    halted = "no" =>
        /\ free_phys_page_count + Cardinality(allocated) + Cardinality(heap_pages)
              = PoolPages
        /\ heap_pages \cap allocated = {}
        /\ \A i \in 1 .. Len(free_chunk_list) :
            /\ free_chunk_list[i].pagecnt > 0
            /\ ChunkPages(free_chunk_list[i]) \subseteq Pool
            /\ ChunkPages(free_chunk_list[i]) \cap (allocated \cup heap_pages) = {}
            /\ \A j \in 1 .. Len(free_chunk_list) :
                i # j => ChunkPages(free_chunk_list[i]) \cap ChunkPages(free_chunk_list[j]) = {}

(***************************************************************************)
(* Virtual addresses and page tables (sys/memory.c).  A virtual address is *)
(* kept to the page: top is its bits 63:38 and vpn its bits 37:12.         *)
(***************************************************************************)
TopOnes == 67108863

\* UMEM_START_VMA and UMEM_END_VMA, RAM_START, address 0 (in the MMIO
\* gigapages), an address whose bits 63:38 are mixed, and one of the upper
\* half.
UMEM_START_VPN == 786432
UMEM_END_VPN == 1048576

VA(top, vpn) == [top |-> top, vpn |-> vpn]

UMEM_START == VA(0, UMEM_START_VPN)
UMEM_LAST == VA(0, UMEM_END_VPN - 1)
UMEM_END == VA(0, UMEM_END_VPN)
RAM_START == VA(0, RAM_START_PPN)
VA_ZERO == VA(0, 0)
VA_MIXED == VA(1, 0)
VA_UPPER == VA(TopOnes, 0)

\* Address bits 63:38 must be all 0 or all 1.
wellformed(vma) == vma.top = 0 \/ vma.top = TopOnes

vpn_l2(v) == (v.vpn \div 262144) + 256 * (v.top % 2)

vpn_l1(v) == (v.vpn \div 512) % 512

vpn_l0(v) == v.vpn % 512

\* vma >= 0x400000000000: a bit from 46 up is set.
AtOrAboveKernelBase(vma) == vma.top >= 256

InUserRange(vma) ==
    vma.top = 0 /\ UMEM_START_VPN <= vma.vpn /\ vma.vpn < UMEM_END_VPN

\* Entry idx of the table in page pt.
Entry(mm, pt, idx) ==
    IF idx \in DOMAIN mm[pt].tbl THEN mm[pt].tbl[idx] ELSE null_pte

SetEntry(m, pt, idx, pte) == [m EXCEPT !.mem[pt].tbl = (idx :> pte) @@ @]

\* One level of walk_create: the table that entry idx of table pt points
\* to, allocated and zeroed if the entry is not valid; NULL for a leaf
\* entry or with no page to allocate.
walk_level(m, pt, idx, alloc) ==
    With(Entry(m.mem, pt, idx), LAMBDA e :
        IF PTE_VALID(e) /\ PTE_LEAF(e) THEN [m EXCEPT !.pp = NULL]
        ELSE IF PTE_VALID(e) THEN [m EXCEPT !.pp = e.ppn]
        ELSE IF ~alloc THEN [m EXCEPT !.pp = NULL]
        ELSE With(alloc_phys_pages(m, 1), LAMBDA m1 :
            IF m1.pp = NULL THEN m1
            ELSE SetEntry([m1 EXCEPT !.mem[m1.pp] = ZeroPage],
                          pt, idx, ptab_pte(m1.pp, {PTE_G}))))

\* walk_create in the space of root: pp is the level 0 table of vma, or NULL.
walk_create(m, root, vma, alloc) ==
    IF ~wellformed(vma) THEN [m EXCEPT !.pp = NULL]
    ELSE With(walk_level(m, root, vpn_l2(vma), alloc), LAMBDA m1 :
        IF m1.pp = NULL THEN m1
        ELSE walk_level(m1, m1.pp, vpn_l1(vma), alloc))

\* map_page: ret is 0 (a null pointer) or a negative error.
map_page(m, root, vma, pp, rwxug_flags) ==
    IF ~wellformed(vma) THEN [m EXCEPT !.ret = -EINVAL]
    ELSE With(walk_create(m, root, vma, TRUE), LAMBDA m1 :
        IF m1.pp = NULL THEN [m1 EXCEPT !.ret = -ENOMEM]
        ELSE [SetEntry(m1, m1.pp, vpn_l0(vma), leaf_pte(pp, rwxug_flags))
                EXCEPT !.ret = 0, !.pp = NULL])

\* alloc_and_map_range of one page: the kernel stops if it cannot.
alloc_and_map_range(m, root, vma, rwxug_flags) ==
    With(alloc_phys_pages(m, 1), LAMBDA m1 :
        IF m1.pp = NULL THEN [m1 EXCEPT !.stop = TRUE]
        ELSE With(map_page(m1, root, vma, m1.pp, rwxug_flags), LAMBDA m2 :
            IF m2.ret < 0 THEN [m2 EXCEPT !.stop = TRUE] ELSE m2))

\* handle_umode_page_fault: ret is 1 if a zeroed page was mapped at vma.
handle_umode_page_fault(m, root, vma, lands) ==
    IF ~wellformed(vma) \/ AtOrAboveKernelBase(vma) THEN [m EXCEPT !.ret = 0]
    ELSE With(alloc_phys_pages(m, 1), LAMBDA m1 :
        IF m1.pp = NULL THEN [m1 EXCEPT !.ret = 0]
        ELSE With(m1.pp, LAMBDA pp :
             With(map_page([m1 EXCEPT !.mem[pp] = ZeroPage], root, vma, pp, MAP_RWUG),
                  LAMBDA m2 :
                IF m2.ret < 0
                THEN [free_phys_pages(m2, pp, 1, lands) EXCEPT !.ret = 0]
                ELSE [m2 EXCEPT !.ret = 1])))

\* The indexes of a table's entries in increasing order.
RECURSIVE SortedSeq(_)
SortedSeq(S) ==
    IF S = {} THEN << >>
    ELSE With(CHOOSE x \in S : \A y \in S : x <= y, LAMBDA x :
            <<x>> \o SortedSeq(S \ {x}))

\* The inner loop of clone_root: every valid leaf entry of old_l1 gets a
\* copy of its page in new_l1; an entry is skipped with no page to allocate.
RECURSIVE clone_leaves(_, _, _, _)
clone_leaves(m, old_l1, new_l1, js) ==
    IF js = << >> THEN m
    ELSE With(Entry(m.mem, old_l1, Head(js)), LAMBDA le :
        IF ~PTE_VALID(le) \/ ~PTE_LEAF(le) THEN clone_leaves(m, old_l1, new_l1, Tail(js))
        ELSE With(alloc_phys_pages(m, 1), LAMBDA m1 :
            IF m1.pp = NULL THEN clone_leaves(m1, old_l1, new_l1, Tail(js))
            ELSE clone_leaves(
                    SetEntry([m1 EXCEPT !.mem[m1.pp] = m1.mem[le.ppn]], new_l1, Head(js),
                             leaf_pte(m1.pp, le.flags \cap {PTE_R, PTE_W, PTE_X, PTE_U, PTE_G})),
                    old_l1, new_l1, Tail(js))))

\* The index of the root entry of RAM_START: the entries from it on are
\* copied into a clone as they are.
kern_idx == vpn_l2(RAM_START)

\* The outer loop of clone_root over the root entries below kern_idx.
RECURSIVE clone_user(_, _, _, _)
clone_user(m, old_l2, new_l2, i) ==
    IF i >= kern_idx THEN m
    ELSE With(Entry(m.mem, old_l2, i), LAMBDA e :
        IF ~PTE_VALID(e) \/ PTE_LEAF(e) THEN clone_user(m, old_l2, new_l2, i + 1)
        ELSE With(alloc_phys_pages(m, 1), LAMBDA m1 :
            IF m1.pp = NULL THEN clone_user(m1, old_l2, new_l2, i + 1)
            ELSE With(m1.pp, LAMBDA new_l1 :
                 With(clone_leaves([m1 EXCEPT !.mem[new_l1] = ZeroPage], e.ppn, new_l1,
                                   SortedSeq(DOMAIN m1.mem[e.ppn].tbl)), LAMBDA m2 :
                    clone_user(SetEntry(m2, new_l2, i, ptab_pte(new_l1, e.flags \cap {PTE_G})),
                               old_l2, new_l2, i + 1)))))

\* clone_root of the space of old_l2: pp is the new root, or NULL.
clone_root(m, old_l2) ==
    With(alloc_phys_pages(m, 1), LAMBDA m1 :
        IF m1.pp = NULL THEN m1
        ELSE With(m1.pp, LAMBDA new_l2 :
             With([m1 EXCEPT !.mem[new_l2] =
                    [tbl |-> [i \in {j \in DOMAIN m1.mem[old_l2].tbl : j >= kern_idx} |->
                                m1.mem[old_l2].tbl[i]],
                     val |-> 0]], LAMBDA m2 :
                [clone_user(m2, old_l2, new_l2, 0) EXCEPT !.pp = new_l2])))

(***************************************************************************)
(* Processes (sys/process.c), system calls (sys/syscall.c) and user mode   *)
(* traps (sys/excp.c).  A thread with a process is in user mode at pc      *)
(* "run"; thrtab[t].tfr is the trap frame of its last trap.  The state of  *)
(* the kernel is the scheduler's record k and the memory's record m.       *)
(***************************************************************************)
MemPages == 8
PAGE_SIZE == 4096
\* sizeof(char *)
PtrSize == 8
MaxArgSlack == 96
\* The entry point of the images.
ExecEntry == 4
MaxSepc == 8
MaxVal == 1

SYSCALL_EXIT == 0
SYSCALL_EXEC == 1
SYSCALL_FORK == 2
SYSCALL_PRINT == 4
SYSCALL_DEVOPEN == 10
SYSCALL_CLOSE == 16
SYSCALL_IODUP == 21
\* A number that is no system call's.
SYSCALL_NONE == 99

KM == [k |-> Kern, m |-> Phys]

SetKM(s) ==
    \E n \in {s} :
        /\ SetKern(n.k)
        /\ SetPhys(n.m)

\* ioaddref(io)
ioaddref(k) == [k EXCEPT !.ioref = @ + 1]

\* ioclose(io): the count goes down by one, and the endpoint's close
\* operation runs when it has reached zero.
ioclose(k) == [k EXCEPT !.ioref = @ - 1, !.ioclosed = @ \/ k.ioref - 1 = 0]

\* ioclose for each of n descriptors.
RECURSIVE ioclose_all(_, _)
ioclose_all(k, n) == IF n = 0 THEN k ELSE ioclose_all(ioclose(k), n - 1)

\* process_exit: the main process may not exit; another closes its
\* descriptors, leaves proctab and ends its thread.
process_exit(k) ==
    With(k.thrtab[k.TP].proc, LAMBDA idx :
        IF k.proctab[idx].tid = 0 THEN [k EXCEPT !.halted = "panic"]
        ELSE thread_exit_mark(
                [ioclose_all(k, Cardinality({fd \in Fds : k.proctab[idx].iotab[fd]}))
                    EXCEPT !.proctab[idx] = NoProc]))

\* The return from handle_syscall into handle_umode_exception: a0 is the
\* value of the call, and the process exits if it is negative.
syscall_return(k, v) ==
    With([k EXCEPT !.thrtab[k.TP].tfr.a0 = v], LAMBDA k1 :
        IF v < 0 THEN process_exit(k1)
        ELSE Return(k1))

FreeProcs(k) == {i \in Procs : ~k.proctab[i].used}

\* process_fork that returns without waiting for the child.
process_fork_no_wait(s) ==
    IF FreeProcs(s.k) = {} THEN [s EXCEPT !.k = syscall_return(s.k, -EMPROC)]
    ELSE With(CHOOSE i \in FreeProcs(s.k) : \A j \in FreeProcs(s.k) : i <= j, LAMBDA idx :
         With(clone_root(s.m, s.k.satp), LAMBDA m1 :
         With(IF m1.pp = NULL THEN 0 ELSE m1.pp, LAMBDA mtag :
         With([s.k EXCEPT !.proctab[idx] = [ZeroProc EXCEPT !.mtag = mtag]], LAMBDA k1 :
            IF mtag = 0 THEN [k |-> syscall_return(k1, -ENOMEM), m |-> m1]
            ELSE With(k1.proctab[k1.thrtab[k1.TP].proc].iotab, LAMBDA piotab :
                 With([k1 EXCEPT !.proctab[idx].iotab = piotab,
                                 !.ioref = @ + Cardinality({fd \in Fds : piotab[fd]})],
                      LAMBDA k2 :
                 With(thread_spawn_create(k2), LAMBDA k3 :
                    IF k3.rv.tid # NULL
                    THEN [k |-> syscall_return(k3, k3.rv.val), m |-> m1]
                    ELSE With(thread_spawn_insert(k3), LAMBDA k4 :
                         With(k4.rv.val, LAMBDA tid :
                            [k |-> syscall_return(
                                     [k4 EXCEPT !.proctab[idx].tid = tid,
                                                !.thrtab[tid].proc = idx,
                                                !.thrtab[tid].pc = "fork_func",
                                                !.thrtab[tid].arg = k4.TP,
                                                !.thrtab[k4.TP].arg = tid],
                                     tid),
                             m |-> m1])))))))))

\* process_fork up to its condition_wait; v is its value if it returns before.
process_fork(s) ==
    IF FreeProcs(s.k) = {} THEN [s EXCEPT !.k = syscall_return(s.k, -EMPROC)]
    ELSE With(CHOOSE i \in FreeProcs(s.k) : \A j \in FreeProcs(s.k) : i <= j, LAMBDA idx :
         With(clone_root(s.m, s.k.satp), LAMBDA m1 :
         With(IF m1.pp = NULL THEN 0 ELSE m1.pp, LAMBDA mtag :
         With([s.k EXCEPT !.proctab[idx] = [ZeroProc EXCEPT !.mtag = mtag]], LAMBDA k1 :
            IF mtag = 0 THEN [k |-> syscall_return(k1, -ENOMEM), m |-> m1]
            ELSE With(k1.proctab[k1.thrtab[k1.TP].proc].iotab, LAMBDA piotab :
                 With([k1 EXCEPT !.proctab[idx].iotab = piotab,
                                 !.ioref = @ + Cardinality({fd \in Fds : piotab[fd]})],
                      LAMBDA k2 :
                 With(thread_spawn_create(k2), LAMBDA k3 :
                    IF k3.rv.tid # NULL
                    THEN [k |-> syscall_return(k3, k3.rv.val), m |-> m1]
                    ELSE With(thread_spawn_insert(k3), LAMBDA k4 :
                         With(k4.rv.val, LAMBDA tid :
                            [k |-> CallCondWait(
                                     [k4 EXCEPT !.proctab[idx].tid = tid,
                                                !.thrtab[tid].proc = idx,
                                                !.thrtab[tid].pc = "fork_func",
                                                !.thrtab[tid].arg = k4.TP,
                                                !.thrtab[k4.TP].arg = tid],
                                     ForkDone(tid), "fork_ret"),
                             m |-> m1])))))))))

\* fork_func that leaves a0 as the parent had it.
fork_func_keeps_a0(k) ==
    With(k.thrtab[k.TP].arg, LAMBDA parent :
        Return(condition_broadcast(
                [k EXCEPT !.thrtab[k.TP].tfr =
                    [k.thrtab[parent].tfr EXCEPT !.tp = k.TP]],
                ForkDone(k.TP))))

\* fork_func: the child thread copies the parent's trap frame with a0 = 0 and
\* tp = its own thread, wakes the parent and jumps to user mode.
fork_func(k) ==
    With(k.thrtab[k.TP].arg, LAMBDA parent :
        Return(condition_broadcast(
                [k EXCEPT !.thrtab[k.TP].tfr =
                    [k.thrtab[parent].tfr EXCEPT !.a0 = 0, !.tp = k.TP]],
                ForkDone(k.TP))))

\* The first free descriptor, or PROCESS_IOMAX.
FirstFreeFd(iotab) ==
    IF \A fd \in Fds : iotab[fd] THEN PROCESS_IOMAX
    ELSE CHOOSE fd \in Fds : ~iotab[fd] /\ \A g \in Fds : ~iotab[g] => fd <= g

\* sysdevopen; found says whether open_device finds and opens the device.
sysdevopen(k, fd, found) ==
    With(k.thrtab[k.TP].proc, LAMBDA idx :
    With(IF fd < 0 THEN FirstFreeFd(k.proctab[idx].iotab) ELSE fd, LAMBDA desc :
        IF desc >= PROCESS_IOMAX \/ (fd >= 0 /\ k.proctab[idx].iotab[fd])
        THEN syscall_return(k, -EBADFD)
        ELSE IF ~found THEN syscall_return(k, -1)
        ELSE syscall_return([k EXCEPT !.proctab[idx].iotab[desc] = TRUE,
                                      !.ioref = @ + 1, !.ioclosed = FALSE], desc)))

sysclose(k, fd) ==
    With(k.thrtab[k.TP].proc, LAMBDA idx :
        IF fd < 0 \/ fd >= PROCESS_IOMAX \/ ~k.proctab[idx].iotab[fd]
        THEN syscall_return(k, -EBADFD)
        ELSE syscall_return([ioclose(k) EXCEPT !.proctab[idx].iotab[fd] = FALSE], 0))

\* sysiodup(oldfd, newfd)
sysiodup(k, oldfd, newfd) ==
    With(k.thrtab[k.TP].proc, LAMBDA idx :
        IF oldfd < 0 \/ oldfd >= PROCESS_IOMAX THEN syscall_return(k, -EBADFD)
        ELSE IF ~k.proctab[idx].iotab[oldfd] THEN syscall_return(k, -EBADFD)
        ELSE With(IF newfd < 0 THEN FirstFreeFd(k.proctab[idx].iotab) ELSE newfd, LAMBDA desc :
            IF desc >= PROCESS_IOMAX THEN syscall_return(k, -EBADFD)
            ELSE With(IF k.proctab[idx].iotab[desc] THEN ioclose(k) ELSE k, LAMBDA k1 :
                    syscall_return([ioaddref(k1) EXCEPT !.proctab[idx].iotab[desc] = TRUE], 0))))

\* The inner loop of discard_active_mspace: the table of every valid entry of
\* pt1 that is no leaf goes back to the allocator.
RECURSIVE discard_tables(_, _, _, _)
discard_tables(m, pt1, js, lands) ==
    IF js = << >> \/ m.stop THEN m
    ELSE With(Entry(m.mem, pt1, Head(js)), LAMBDA e :
        IF ~PTE_VALID(e) \/ PTE_LEAF(e) THEN discard_tables(m, pt1, Tail(js), lands)
        ELSE discard_tables(free_phys_pages(m, e.ppn, 1, lands), pt1, Tail(js), lands))

\* The outer loop of discard_active_mspace over the entries is of the root.
RECURSIVE discard_user(_, _, _, _)
discard_user(m, pt2, is, lands) ==
    IF is = << >> \/ m.stop THEN m
    ELSE With(Entry(m.mem, pt2, Head(is)), LAMBDA e :
        IF ~PTE_VALID(e) \/ PTE_LEAF(e) THEN discard_user(m, pt2, Tail(is), lands)
        ELSE With(discard_tables(m, e.ppn, SortedSeq(DOMAIN m.mem[e.ppn].tbl), lands),
                  LAMBDA m1 :
                discard_user(IF m1.stop THEN m1 ELSE free_phys_pages(m1, e.ppn, 1, lands),
                             pt2, Tail(is), lands)))

\* discard_active_mspace: the main space is left alone; of another space the
\* tables go back to the allocator, and the main space becomes active.
discard_active_mspace(s, lands) ==
    IF s.k.satp = main_mtag THEN s
    ELSE With(discard_user(s.m, s.k.satp,
                           SortedSeq({i \in DOMAIN s.m.mem[s.k.satp].tbl : i < 256}), lands),
              LAMBDA m1 :
            [k |-> [s.k EXCEPT !.satp = main_mtag],
             m |-> IF m1.stop THEN m1 ELSE free_phys_pages(m1, s.k.satp, 1, lands)])

\* The first loop of build_stack over argc strings of arglen characters each.
RECURSIVE build_stack_loop(_, _, _, _)
build_stack_loop(i, argc, arglen, stksz) ==
    IF i >= argc THEN stksz
    ELSE IF PAGE_SIZE - stksz < arglen + 1 THEN -ENOMEM
    ELSE build_stack_loop(i + 1, argc, arglen, stksz + arglen + 1)

\* build_stack: the size of the argument block rounded up to 16, or -ENOMEM.
build_stack(argc, arglen) ==
    IF (PAGE_SIZE \div PtrSize) - 1 < argc THEN -ENOMEM
    ELSE With(build_stack_loop(0, argc, arglen, (argc + 1) * PtrSize), LAMBDA stksz :
        IF stksz < 0 THEN stksz ELSE ((stksz + 15) \div 16) * 16)

\* process_exec.  call.elf says whether the image has the header of an
\* executable; the image has no segment to load and starts at call.entry.
process_exec(s, call) ==
    With(discard_active_mspace(s, call.lands), LAMBDA s1 :
        IF s1.m.stop THEN [s1 EXCEPT !.k.halted = "panic"]
        ELSE IF ~call.elf THEN [s1 EXCEPT !.k = syscall_return(s1.k, -EINVAL)]
        ELSE With(alloc_and_map_range(s1.m, s1.k.satp, UMEM_LAST, MAP_RWUG), LAMBDA m2 :
            IF m2.stop THEN [k |-> [s1.k EXCEPT !.halted = "panic"], m |-> m2]
            ELSE With(build_stack(call.argc, call.arglen), LAMBDA stksz :
                IF stksz < 0 THEN [k |-> syscall_return(s1.k, stksz), m |-> m2]
                ELSE [k |-> Return(
                            [s1.k EXCEPT
                                !.thrtab[s1.k.TP].tfr =
                                    [a0 |-> call.argc, sepc |-> call.entry, tp |-> s1.k.TP],
                                !.proctab[s1.k.thrtab[s1.k.TP].proc].mtag = s1.k.satp,
                                !.proctab[s1.k.thrtab[s1.k.TP].proc].tid = s1.k.TP]),
                      m |-> m2])))

\* sysexec(fd, argc, argv)
sysexec(s, call) ==
    IF call.argc < 0 \/ call.fd < 0 \/ call.fd >= PROCESS_IOMAX
        THEN [s EXCEPT !.k = syscall_return(s.k, -EBADFD)]
    ELSE IF ~s.k.proctab[s.k.thrtab[s.k.TP].proc].iotab[call.fd]
        THEN [s EXCEPT !.k = syscall_return(s.k, -EBADFD)]
    ELSE process_exec(s, call)

\* handle_umode_exception for an ecall: handle_syscall and what follows it.
handle_syscall(s, call) ==
    With([s EXCEPT !.k.thrtab[s.k.TP].tfr.sepc = @ + 4], LAMBDA s1 :
        IF call.nr = SYSCALL_EXIT
        THEN [s1 EXCEPT !.k = process_exit(s1.k)]
        ELSE IF call.nr = SYSCALL_EXEC THEN sysexec(s1, call)
        ELSE IF call.nr = SYSCALL_FORK THEN process_fork(s1)
        ELSE IF call.nr = SYSCALL_PRINT THEN [s1 EXCEPT !.k = syscall_return(s1.k, 0)]
        ELSE IF call.nr = SYSCALL_DEVOPEN
        THEN [s1 EXCEPT !.k = sysdevopen(s1.k, call.fd, call.found)]
        ELSE IF call.nr = SYSCALL_CLOSE THEN [s1 EXCEPT !.k = sysclose(s1.k, call.fd)]
        ELSE IF call.nr = SYSCALL_IODUP
        THEN [s1 EXCEPT !.k = sysiodup(s1.k, call.fd, call.newfd)]
        ELSE [s1 EXCEPT !.k = syscall_return(s1.k, -ENOTSUP)])

\* handle_umode_exception for a page fault at vma.
handle_page_fault(s, vma, lands) ==
    With(handle_umode_page_fault(s.m, s.k.satp, vma, lands), LAMBDA m1 :
        IF m1.stop THEN [k |-> [s.k EXCEPT !.halted = "panic"], m |-> m1]
        ELSE IF m1.ret = 1 THEN [k |-> s.k, m |-> m1]
        ELSE [k |-> process_exit(s.k), m |-> m1])

\* handle_umode_exception for every other cause: it panics.
handle_other_exception(k) == [k EXCEPT !.halted = "panic"]

(***************************************************************************)
(* What the processor does with a user access.                             *)
(***************************************************************************)
\* The leaf entry that translates vma in the space of root and its level,
\* or null_pte.
Translate(mm, root, vma) ==
    IF ~wellformed(vma) THEN [pte |-> null_pte, lvl |-> 2]
    ELSE With(Entry(mm, root, vpn_l2(vma)), LAMBDA e2 :
        IF ~PTE_VALID(e2) \/ PTE_LEAF(e2) THEN [pte |-> e2, lvl |-> 2]
        ELSE With(Entry(mm, e2.ppn, vpn_l1(vma)), LAMBDA e1 :
            IF ~PTE_VALID(e1) \/ PTE_LEAF(e1) THEN [pte |-> e1, lvl |-> 1]
            ELSE [pte |-> Entry(mm, e1.ppn, vpn_l0(vma)), lvl |-> 0]))

AccessBit(kind) ==
    IF kind = "store" THEN PTE_W ELSE IF kind = "load" THEN PTE_R ELSE PTE_X

\* A user access of this kind to vma goes through.
UserCan(mm, root, vma, kind) ==
    With(Translate(mm, root, vma).pte, LAMBDA e :
        PTE_VALID(e) /\ PTE_U \in e.flags /\ AccessBit(kind) \in e.flags)

\* The page a user access to vma reaches.
UserPage(mm, root, vma) == Translate(mm, root, vma).pte.ppn

InUser == AtRun /\ Me.proc # NULL

(***************************************************************************)
(* The process specification: the main process has been started by         *)
(* process_exec in the main memory space, with its stack page mapped below *)
(* UMEM_END.  User code makes system calls, stores to its memory, faults,  *)
(* and is preempted by the timer.                                          *)
(***************************************************************************)
Calls ==
    {[nr |-> n, fd |-> 0, found |-> FALSE, newfd |-> 0] :
        n \in {SYSCALL_EXIT, SYSCALL_FORK, SYSCALL_PRINT, SYSCALL_NONE}}
    \cup {[nr |-> SYSCALL_CLOSE, fd |-> f, found |-> FALSE, newfd |-> 0] :
            f \in -1 .. PROCESS_IOMAX}
    \cup {[nr |-> SYSCALL_DEVOPEN, fd |-> f, found |-> b, newfd |-> 0] :
            f \in -1 .. PROCESS_IOMAX, b \in BOOLEAN}
    \cup {[nr |-> SYSCALL_IODUP, fd |-> f, found |-> FALSE, newfd |-> g] :
            f \in -1 .. PROCESS_IOMAX, g \in -1 .. PROCESS_IOMAX}

Addrs == {UMEM_START, UMEM_LAST, UMEM_END, VA_ZERO, VA_MIXED}

Kinds == {"instr", "load", "store"}

\* The causes that are neither an ecall nor a page fault.
Causes == {"misaligned", "access_fault", "illegal_instr", "breakpoint"}

InitProc ==
    /\ thrtab = [InitThreads EXCEPT ![MAIN_TID].proc = 0]
    /\ ready_list = [head |-> IDLE_TID, tail |-> IDLE_TID]
    /\ conds = [c \in ThrConds |-> EmptyList]
    /\ TP = MAIN_TID
    /\ sie = FALSE
    /\ locks = [l \in Locks |-> [owner |-> NULL, count |-> 0, next |-> NoLock]]
    /\ halted = "no"
    /\ rv = NoRv
    /\ satp = main_mtag
    /\ proctab = [InitProctab EXCEPT ![0].tid = MAIN_TID, ![0].mtag = main_mtag]
    /\ ioref = 0
    /\ ioclosed = FALSE
    /\ held = [t \in Tids |-> [l \in Locks |-> 0]]
    /\ NoPipe
    /\ NoKtfs
    /\ NoDev
    /\ PhysIs(alloc_and_map_range(Phys0(MemPages), main_mtag, UMEM_LAST, MAP_RWUG))

UEcall(call) ==
    /\ InUser
    /\ Me.tfr.sepc < MaxSepc
    /\ SetKM(handle_syscall(KM, call))
    /\ UNCHANGED <<held, pipeVars, allocated, alloc_ret, fsVars, devVars>>

ForkFunc ==
    /\ halted = "no" /\ Me.pc = "fork_func"
    /\ SetKern(fork_func(Kern))
    /\ UNCHANGED <<held, otherVars>>

\* process_fork after its wait: it returns the child's thread id.
ForkReturn ==
    /\ halted = "no" /\ Me.pc = "fork_ret"
    /\ SetKern(syscall_return(Kern, Me.arg))
    /\ UNCHANGED <<held, otherVars>>

\* A user access that the processor refuses: a page fault.
UPageFault(kind, vma) ==
    /\ InUser
    /\ ~UserCan(mem, satp, vma, kind)
    /\ \E lands \in BOOLEAN : SetKM(handle_page_fault(KM, vma, lands))
    /\ UNCHANGED <<held, pipeVars, allocated, alloc_ret, fsVars, devVars>>

UException(cause) ==
    /\ InUser
    /\ SetKern(handle_other_exception(Kern))
    /\ UNCHANGED <<held, otherVars>>

\* A user store that the processor lets through.
UStore(vma, v) ==
    /\ InUser
    /\ UserCan(mem, satp, vma, "store")
    /\ Translate(mem, satp, vma).lvl = 0
    /\ mem' = [mem EXCEPT ![UserPage(mem, satp, vma)].val = v]
    /\ UNCHANGED <<schedVars, held, pipeVars, allocVars, fsVars, devVars>>

\* Forks, stores and page faults: what the memory spaces go through.
NextMem ==
    \/ UEcall([nr |-> SYSCALL_FORK, fd |-> 0, found |-> FALSE])
    \/ ForkFunc
    \/ ForkReturn
    \/ \E kind \in Kinds : \E vma \in Addrs : UPageFault(kind, vma)
    \/ \E vma \in Addrs : \E v \in 1 .. MaxVal : UStore(vma, v)
    \/ Yield
    \/ CondWaitMark
    \/ CondWaitInsert
    \/ CondWaitSuspend
    \/ ExitBroadcast
    \/ ExitSuspend
    \/ IdleYield

SpecMem == InitProc /\ [][NextMem]_vars

\* The calls of the exec specification: images are executed with few or
\* many, short or long arguments.
ExecArgcs == {-1, 0, 2, (PAGE_SIZE \div PtrSize) - 1, PAGE_SIZE \div PtrSize}
ExecArglens == {0, PAGE_SIZE - MaxArgSlack}
ExecCalls ==
    {[nr |-> SYSCALL_EXEC, fd |-> f, argc |-> n, arglen |-> l, elf |-> e,
      entry |-> ExecEntry, lands |-> b] :
        f \in {0, PROCESS_IOMAX}, n \in ExecArgcs, l \in ExecArglens, e \in BOOLEAN, b \in BOOLEAN}

\* The main process has opened a device as its descriptor 0.
InitExec ==
    /\ thrtab = [InitThreads EXCEPT ![MAIN_TID].proc = 0]
    /\ ready_list = [head |-> IDLE_TID, tail |-> IDLE_TID]
    /\ conds = [c \in ThrConds |-> EmptyList]
    /\ TP = MAIN_TID
    /\ sie = FALSE
    /\ locks = [l \in Locks |-> [owner |-> NULL, count |-> 0, next |-> NoLock]]
    /\ halted = "no"
    /\ rv = NoRv
    /\ satp = main_mtag
    /\ proctab = [InitProctab EXCEPT ![0].tid = MAIN_TID, ![0].mtag = main_mtag,
                                  ![0].iotab[0] = TRUE]
    /\ ioref = 1
    /\ ioclosed = FALSE
    /\ held = [t \in Tids |-> [l \in Locks |-> 0]]
    /\ NoPipe
    /\ NoKtfs
    /\ NoDev
    /\ PhysIs(alloc_and_map_range(Phys0(MemPages), main_mtag, UMEM_LAST, MAP_RWUG))

\* Processes that fork and execute images.
NextExec ==
    \/ UEcall([nr |-> SYSCALL_FORK, fd |-> 0, found |-> FALSE, newfd |-> 0])
    \/ \E call \in ExecCalls : UEcall(call)
    \/ ForkFunc
    \/ ForkReturn
    \/ Yield
    \/ CondWaitMark
    \/ CondWaitInsert
    \/ CondWaitSuspend
    \/ ExitBroadcast
    \/ ExitSuspend
    \/ IdleYield

SpecExec == InitExec /\ [][NextExec]_vars

\* The addresses of the faults of the trap specification.
TrapAddrs == {UMEM_START, VA_MIXED, VA_UPPER}

\* System calls and exceptions: what the trap handler goes through.
NextTrap ==
    \/ \E call \in Calls : UEcall(call)
    \/ ForkFunc
    \/ ForkReturn
    \/ \E kind \in Kinds : \E vma \in TrapAddrs : UPageFault(kind, vma)
    \/ \E cause \in Causes : UException(cause)
    \/ Yield
    \/ CondWaitMark
    \/ CondWaitInsert
    \/ CondWaitSuspend
    \/ ExitBroadcast
    \/ ExitSuspend
    \/ IdleYield

SpecTrap == InitProc /\ [][NextTrap]_vars

\* The processor always executes, and the timer interrupt makes a thread
\* that stays in user mode yield (handle_umode_interrupt).
SpecTrapFair == SpecTrap /\ WF_vars(NextTrap) /\ WF_vars(Yield)

\* Thread t is in process_fork, at its condition_wait for child c.
InForkWait(t, c) ==
    /\ thrtab[t] # NULL_THREAD
    /\ \/ thrtab[t].pc \in {"cw_mark", "cw_insert", "cw_suspend"}
          /\ thrtab[t].cond = ForkDone(c) /\ thrtab[t].ret = "fork_ret"
       \/ thrtab[t].pc = "fork_ret" /\ thrtab[t].state = "WAITING"
          /\ thrtab[t].wait_cond = ForkDone(c)

\* While the child has not yet copied the trap frame and signalled, its
\* parent is held in process_fork.
C25_ParentHeld ==
    \A c \in Tids :
        (thrtab[c] # NULL_THREAD /\ thrtab[c].pc = "fork_func")
            => InForkWait(thrtab[c].arg, c)

LiveProcs == {i \in Procs : proctab[i].used /\ proctab[i].mtag # 0}

\* The root entries that cover the user range.
UserL2 == vpn_l2(UMEM_START) .. vpn_l2(UMEM_LAST)

ValidEntries(mm, pt) == {e \in {mm[pt].tbl[i] : i \in DOMAIN mm[pt].tbl} : PTE_VALID(e)}

\* The tables and pages of the space of root that map the user range.
UserReach(mm, root) ==
    LET L1s == {Entry(mm, root, i).ppn : i \in {j \in UserL2 :
                    PTE_VALID(Entry(mm, root, j)) /\ ~PTE_LEAF(Entry(mm, root, j))}}
        E1s == UNION {ValidEntries(mm, l1) : l1 \in L1s}
        L0s == {e.ppn : e \in {x \in E1s : ~PTE_LEAF(x)}}
        E0s == UNION {ValidEntries(mm, l0) : l0 \in L0s}
    IN  L1s \cup {e.ppn : e \in E1s} \cup {e.ppn : e \in E0s}

UserAddrs == {UMEM_START, UMEM_LAST}

\* What the process in entry q of proctab finds at the addresses of the user
\* range: the permissions and the content of the page, or nothing.
UserView(mm, q) ==
    [a \in UserAddrs |->
        IF UserCan(mm, proctab[q].mtag, a, "load")
        THEN [flags |-> Translate(mm, proctab[q].mtag, a).pte.flags,
              val |-> mm[UserPage(mm, proctab[q].mtag, a)].val]
        ELSE [flags |-> {}, val |-> 0]]

\* The tables and pages that the root entries idxs of the space of root lead to.
ReachVia(mm, root, idxs) ==
    LET L1s == {Entry(mm, root, i).ppn : i \in {j \in idxs :
                    PTE_VALID(Entry(mm, root, j)) /\ ~PTE_LEAF(Entry(mm, root, j))}}
        E1s == UNION {ValidEntries(mm, l1) : l1 \in L1s}
        L0s == {e.ppn : e \in {x \in E1s : ~PTE_LEAF(x)}}
        E0s == UNION {ValidEntries(mm, l0) : l0 \in L0s}
    IN  L1s \cup L0s \cup {e.ppn : e \in {x \in E1s : PTE_LEAF(x)} \cap
                                   {x \in E1s : x.ppn \in DOMAIN mm}}
            \cup {e.ppn : e \in {x \in E0s : x.ppn \in DOMAIN mm}}

\* The pages of the chunks of a free list.
ListPages(list) == UNION {ChunkPages(list[i]) : i \in DOMAIN list}

\* The pages that discard_active_mspace gives to the allocator in this state:
\* those on the free list afterwards, or taken from it by the heap for the
\* nodes of the list, that were neither free nor of the heap before.
Discarded(lands) ==
    LET r == discard_active_mspace(KM, lands) IN
    (ListPages(r.m.list) \cup r.m.hpages) \ (ListPages(free_chunk_list) \cup heap_pages)

\* What the main space and the spaces of the other processes reach.
OthersReach ==
    UNION {{r} \cup ReachVia(mem, r, 0 .. 511) :
             r \in ({main_mtag} \cup {proctab[p].mtag : p \in LiveProcs}) \ {satp}}

\* C30: discard_active_mspace on a space that is not the main one gives to the
\* allocator the pages private to that space (the user pages, the tables of
\* the user half and the root), each once, and no table or page that the
\* main space or the space of another process reaches; then the main space
\* is active.  On the main space it frees nothing.
C30_DiscardFreesPrivatePages ==
    (halted = "no" /\ TP # IDLE_TID /\ Me.pc = "run") =>
    \A lands \in BOOLEAN :
        LET r == discard_active_mspace(KM, lands) IN
        IF satp = main_mtag THEN r = KM
        ELSE r.m.stop \/
             /\ Discarded(lands) = {satp} \cup UserReach(mem, satp)
             /\ Discarded(lands) \cap OthersReach = {}
             /\ \A i \in DOMAIN r.m.list : \A j \in DOMAIN r.m.list :
                    i # j => ChunkPages(r.m.list[i]) \cap ChunkPages(r.m.list[j]) = {}
             /\ r.k.satp = main_mtag

NoSharedUserPages ==
    \A p \in LiveProcs : \A q \in LiveProcs :
        p # q => UserReach(mem, proctab[p].mtag) \cap UserReach(mem, proctab[q].mtag) = {}

StoreIsPrivate ==
    [][ \A vma \in Addrs : \A v \in 1 .. MaxVal :
            UStore(vma, v) =>
                \A q \in LiveProcs : q # Me.proc => UserView(mem', q) = UserView(mem, q) ]_vars

\* C4: after process_fork the child has a private user half: no user page
\* or user-half table is reachable from the spaces of two processes, and a
\* store to user memory by one process changes nothing another process
\* finds in its user range.
C4_ForkGivesPrivateUserHalf == []NoSharedUserPages /\ StoreIsPrivate

\* The faulting thread has been stopped: it has exited, or the kernel has
\* stopped with it.
FaulterStopped == halted' # "no" \/ thrtab'[TP].state = "EXITED"

\* The pages of the pool that are free or hold the heap's chunk nodes.
PoolCount == free_phys_page_count + Cardinality(heap_pages)

\* C8: a user page fault is serviced if and only if the address is in the
\* user range below UMEM_END: there a zeroed page is mapped at the address
\* with user read and write permission and the thread goes on (unless the
\* pool has no pages for it); elsewhere nothing is allocated or mapped and
\* the faulting process is terminated.
C8_PageFaultServicedIffInUserRange ==
    [][ \A kind \in Kinds : \A vma \in Addrs :
            UPageFault(kind, vma) =>
                IF InUserRange(vma)
                THEN \/ /\ UserCan(mem', satp, vma, "load")
                        /\ UserCan(mem', satp, vma, "store")
                        /\ mem'[UserPage(mem', satp, vma)].val = 0
                        /\ halted' = "no" /\ TP' = TP /\ thrtab'[TP].pc = "run"
                     \/ /\ free_phys_page_count < 3
                        /\ FaulterStopped
                ELSE /\ \A p \in DOMAIN mem : mem'[p].tbl = mem[p].tbl
                     /\ PoolCount' = PoolCount
                     /\ FaulterStopped ]_vars

\* Only the faulting process is terminated: its thread has exited, its entry
\* of proctab is free, the kernel runs and every other thread and process is
\* as it was.
OnlyFaulterTerminated ==
    /\ halted' = "no"
    /\ thrtab'[TP].state = "EXITED"
    /\ ~proctab'[Me.proc].used
    /\ \A t \in Tids \ {TP} : thrtab'[t] = thrtab[t]
    /\ \A q \in Procs \ {Me.proc} : proctab'[q] = proctab[q]

\* C9: a user exception that cannot be serviced (an illegal instruction, a
\* misaligned access, an access fault, a page fault outside the user range)
\* terminates the faulting process only: the kernel does not stop.
C9_UnserviceableFaultKillsOnlyTheProcess ==
    [][ /\ \A cause \in Causes : UException(cause) => OnlyFaulterTerminated
        /\ \A kind \in Kinds : \A vma \in TrapAddrs :
            (UPageFault(kind, vma) /\ ~InUserRange(vma)) => OnlyFaulterTerminated ]_vars

\* C7: a system call that returns, whether it succeeds or fails, leaves its
\* value in the caller's a0, advances the saved pc by 4 and resumes the
\* caller in user mode; a failing call delivers its negative error code and
\* the process stays alive with its descriptors and its memory space.
C7_SyscallReturnsToCaller ==
    [][ /\ \A call \in Calls :
            (call.nr # SYSCALL_EXIT /\ UEcall(call)) =>
                /\ halted' = "no"
                /\ thrtab'[TP].state # "EXITED"
                /\ proctab'[Me.proc].used
                /\ thrtab'[TP].tfr.sepc = Me.tfr.sepc + 4
                /\ \/ thrtab'[TP].pc = "run" /\ TP' = TP
                   \/ call.nr = SYSCALL_FORK /\ thrtab'[TP].pc = "cw_mark"
                /\ call.nr = SYSCALL_NONE => thrtab'[TP].tfr.a0 = -ENOTSUP
                /\ (call.nr = SYSCALL_CLOSE /\ call.fd \notin Fds) =>
                        thrtab'[TP].tfr.a0 = -EBADFD
                /\ (thrtab'[TP].pc = "run" /\ thrtab'[TP].tfr.a0 < 0) =>
                        /\ proctab'[Me.proc] = proctab[Me.proc]
                        /\ ioref' = ioref
        /\ ForkReturn =>
                /\ halted' = "no"
                /\ TP' = TP /\ thrtab'[TP].pc = "run"
                /\ thrtab'[TP].tfr.a0 = Me.arg ]_vars

(***************************************************************************)
(* What process_exit gives back.                                           *)
(***************************************************************************)
\* The pages on the free list.
FreeSet(list) == UNION {ChunkPages(list[i]) : i \in DOMAIN list}

\* The pages of the memory space of process p that no other process uses:
\* its root table and the tables and pages of its user range.
OwnPages(p) ==
    ({proctab[p].mtag} \cup UserReach(mem, proctab[p].mtag))
        \ UNION {{proctab[q].mtag} \cup UserReach(mem, proctab[q].mtag) :
                    q \in LiveProcs \ {p}}

OpenFds(p) == {fd \in Fds : proctab[p].iotab[fd]}

\* C11: process_exit releases everything the process owned: each of its open
\* descriptors is closed once, the pages of its memory space (root table,
\* user-half tables, user pages) are back on the free list, and its entry of
\* proctab is free.
C11_ExitReleasesEverything ==
    [][ \A p \in Procs :
            (proctab[p].used /\ proctab[p].tid # 0 /\ thrtab[TP].proc = p
                /\ thrtab'[TP].state = "EXITED" /\ thrtab[TP].state # "EXITED") =>
                /\ ~proctab'[p].used
                /\ ioref' = ioref - Cardinality(OpenFds(p))
                /\ OwnPages(p) \subseteq FreeSet(free_chunk_list') ]_vars

\* The descriptor-table slots, over all processes, that refer to the endpoint.
IoSlots == {<<p, fd>> \in Procs \X Fds : proctab[p].iotab[fd]}

\* C17: the reference count of the endpoint is the number of descriptor
\* slots that refer to it, and its close operation has not run while a slot
\* refers to it.
C17_RefCountIsSlots ==
    /\ ioref = Cardinality(IoSlots)
    /\ (IoSlots # {}) => ~ioclosed

\* C18: process_fork returns the thread id of the child, a positive number,
\* to the parent; the child enters user mode with the trap frame of the
\* parent in which a0 is 0 and tp is the child thread; the table of the child
\* holds what the table of the parent holds, and the endpoint has one more
\* reference for each slot.
C18_ForkParentAndChild ==
    [][ /\ (halted = "no" /\ Me.pc = "fork_ret" /\ thrtab'[TP].pc = "run") =>
                /\ thrtab'[TP].tfr.a0 = Me.arg
                /\ Me.arg > 0
        /\ (halted = "no" /\ Me.pc = "fork_func" /\ thrtab'[TP].pc = "run") =>
                /\ thrtab'[TP].tfr = [thrtab[Me.arg].tfr EXCEPT !.a0 = 0, !.tp = TP]
                /\ thrtab'[TP].proc # NULL
                /\ proctab[Me.proc].iotab = proctab[thrtab[Me.arg].proc].iotab
        /\ \A idx \in Procs :
                (~proctab[idx].used /\ proctab'[idx].used /\ proctab'[idx].tid # 0) =>
                    /\ proctab'[idx].iotab = proctab[Me.proc].iotab
                    /\ ioref' = ioref + Cardinality(OpenFds(Me.proc)) ]_vars

\* C18 as stated: the trap frame of the child is the trap frame of the parent
\* in which only a0 differs.
C18_OnlyA0Differs ==
    [][ (halted = "no" /\ Me.pc = "fork_func" /\ thrtab'[TP].pc = "run") =>
            thrtab'[TP].tfr = [thrtab[Me.arg].tfr EXCEPT !.a0 = 0] ]_vars

\* The parent is back in user mode with the thread id of its child in a0, and
\* the child is in user mode with a0 = 0 and the descriptor it inherited.
C18_Witness ==
    \E p \in Procs \ {0} :
        /\ proctab[p].used /\ proctab[p].tid > 0
        /\ thrtab[proctab[p].tid].pc = "run" /\ thrtab[proctab[p].tid].tfr.a0 = 0
        /\ thrtab[proctab[p].tid].tfr.sepc = thrtab[MAIN_TID].tfr.sepc
        /\ thrtab[proctab[p].tid].tfr.tp = proctab[p].tid
        /\ thrtab[MAIN_TID].pc = "run" /\ thrtab[MAIN_TID].tfr.a0 = proctab[p].tid
        /\ proctab[p].iotab[0] /\ proctab[0].iotab[0] /\ ioref = 2

\* The step is the system call of the running process.
IsCall(call) ==
    /\ InUser
    /\ thrtab' = handle_syscall(KM, call).k.thrtab
    /\ halted' = handle_syscall(KM, call).k.halted
    /\ mem' = handle_syscall(KM, call).m.mem
    /\ free_chunk_list' = handle_syscall(KM, call).m.list

\* C19: process_exec with arguments that do not fit in the argument page
\* returns -ENOMEM and does not start the image; the stack page it mapped
\* is unmapped and back with the allocator, which has as many free pages as
\* before the stack was allocated.
C19_ExecFailureUnwinds ==
    [][ \A call \in ExecCalls :
            (/\ IsCall(call)
             /\ call.argc >= 0 /\ call.elf
             /\ call.fd \in Fds /\ proctab[Me.proc].iotab[call.fd]
             /\ build_stack(call.argc, call.arglen) < 0
             /\ ~handle_syscall(KM, call).m.stop) =>
                /\ thrtab'[TP].tfr.a0 = -ENOMEM
                /\ thrtab'[TP].tfr.sepc = Me.tfr.sepc + 4
                /\ ~UserCan(mem', satp', UMEM_LAST, "load")
                /\ SumCounts(free_chunk_list') =
                        SumCounts(discard_active_mspace(KM, call.lands).m.list) ]_vars

(***************************************************************************)
(* KTFS.  Every block is reached through the block cache, which hands out  *)
(* a pointer into its own copy of the block and keeps the copy: while      *)
(* fewer than CACHE_SZ blocks have been touched, a block holds what was    *)
(* last stored through such a pointer.  A block is modelled by what its    *)
(* users find in it: data bytes, block numbers, or directory entries.      *)
(***************************************************************************)
KTFS_BLKSZ == 3                     \* bytes in a block
PtrsPerBlock == 2                   \* KTFS_BLKSZ / sizeof(uint32_t)
DENTRIES_PER_DIR == 2               \* KTFS_BLKSZ / KTFS_DENSZ
KTFS_NUM_DIRECT_DATA_BLOCKS == 2
KTFS_NUM_DINDIRECT_BLOCKS == 1
NumInodes == 4                      \* INODES_PER_BLOCK * superblock.inode_block_count
NumDataBlocks == 14
MaxFiles == 3                       \* struct ktfs_file objects the heap hands out
MaxCreates == 2                     \* calls of ktfs_create in one run

BLOCKS_PER_DIND == PtrsPerBlock * PtrsPerBlock

\* 1 + superblock.bitmap_block_count + superblock.inode_block_count
FirstDataBlock == 3

block_count == FirstDataBlock + NumDataBlocks

EMFILE == 10
EACCESS == 8
ENOENT == 7
ENOINODEBLKS == 17
ENODATABLKS == 16

root_inode_number == 0

\* The data blocks the cache can hold: those of the device, and the one
\* past its end that find_available_block can return.
DataBlocks == 0 .. NumDataBlocks

FNames == {"a", "b", "c"}

\* A name as strncpy(new_dentry.name, name, strlen(name)) leaves it in a
\* directory entry that was not initialized: followed by a zero byte, or by
\* whatever the stack held.
Stored(name, zero) == [name |-> name, zero |-> zero]

\* strncmp(name, stored, KTFS_MAX_FILENAME_LEN) == 0, for a name shorter than
\* KTFS_MAX_FILENAME_LEN.
SameName(name, stored) == stored.zero /\ stored.name = name

NoDentry == [inode |-> 0, name |-> Stored("", TRUE)]

ZeroBlock ==
    [data |-> [i \in 0 .. KTFS_BLKSZ - 1 |-> 0],
     ptr |-> [i \in 0 .. PtrsPerBlock - 1 |-> 0],
     dent |-> [i \in 0 .. DENTRIES_PER_DIR - 1 |-> NoDentry]]

ZeroInode ==
    [size |-> 0,
     block |-> [i \in 0 .. KTFS_NUM_DIRECT_DATA_BLOCKS - 1 |-> 0],
     indirect |-> 0,
     dindirect |-> [i \in 0 .. KTFS_NUM_DINDIRECT_BLOCKS - 1 |-> 0]]

NoFile == [used |-> FALSE, dentry |-> NoDentry, size |-> 0]

NoSeekio == [open |-> FALSE, pos |-> 0, end |-> 0]

\* The file system after ktfs_mount of an image with an empty root
\* directory: the bitmap marks the superblock, bitmap and inode blocks.
MountedKtfs ==
    [mounted |-> TRUE,
     bitmap |-> 0 .. FirstDataBlock - 1,
     blk |-> [b \in DataBlocks |-> ZeroBlock],
     inode |-> [n \in 0 .. NumInodes - 1 |-> ZeroInode],
     root_directory_inode |-> [size |-> 0, block |-> [i \in 0 .. KTFS_NUM_DIRECT_DATA_BLOCKS - 1 |-> 0]],
     open_files |-> << >>,
     file |-> [f \in 1 .. MaxFiles |-> NoFile],
     seekio |-> [f \in 1 .. MaxFiles |-> NoSeekio],
     nfiles |-> 0,
     creates |-> 0]

\* find_available_block: the first clear bit of the bitmap, marked in use;
\* 0 if it lies beyond block_count.
find_available_block(K) ==
    With(CHOOSE j \in 0 .. block_count + 1 :
            j \notin K.bitmap /\ \A i \in 0 .. j - 1 : i \in K.bitmap, LAMBDA j :
        IF block_count < j THEN [K |-> K, ret |-> 0]
        ELSE [K |-> [K EXCEPT !.bitmap = @ \cup {j}], ret |-> j])

\* clear_data_block(b)
clear_data_block(K, b) ==
    IF b < FirstDataBlock \/ block_count < b THEN [K |-> K, ret |-> -ENOTSUP]
    ELSE [K |-> [K EXCEPT !.bitmap = @ \ {b}], ret |-> 0]

\* The number of blocks that hold size bytes.
NumBlks(size) == (size \div KTFS_BLKSZ) + (IF size % KTFS_BLKSZ # 0 THEN 1 ELSE 0)

max_file_size ==
    KTFS_BLKSZ * (KTFS_NUM_DIRECT_DATA_BLOCKS + PtrsPerBlock
                    + KTFS_NUM_DINDIRECT_BLOCKS * BLOCKS_PER_DIND)

\* The data block that holds block n of the file of inode in, as ktfs_readat
\* and ktfs_writeat find it.
file_block(K, in, n) ==
    IF n < KTFS_NUM_DIRECT_DATA_BLOCKS THEN in.block[n]
    ELSE IF n < KTFS_NUM_DIRECT_DATA_BLOCKS + PtrsPerBlock
    THEN K.blk[in.indirect].ptr[n - KTFS_NUM_DIRECT_DATA_BLOCKS]
    ELSE With(n - (KTFS_NUM_DIRECT_DATA_BLOCKS + PtrsPerBlock), LAMBDA idx_dind :
         With(K.blk[in.dindirect[idx_dind \div BLOCKS_PER_DIND]]
                    .ptr[(idx_dind % BLOCKS_PER_DIND) \div PtrsPerBlock], LAMBDA ind_blockidx :
            K.blk[ind_blockidx].ptr[idx_dind % PtrsPerBlock]))

\* One round of the loop of set_file_size: block i of the file is allocated.
\* s is [K, in, ret]; ret # 0 once a block could not be found.
RECURSIVE set_file_size_loop(_, _, _)
set_file_size_loop(s, i, new_numblks) ==
    IF i >= new_numblks \/ s.ret # 0 THEN s
    ELSE IF i < KTFS_NUM_DIRECT_DATA_BLOCKS
    THEN With(find_available_block(s.K), LAMBDA r :
            set_file_size_loop(
                IF r.ret = 0 THEN [s EXCEPT !.K = r.K, !.ret = -EACCESS]
                ELSE [s EXCEPT !.K = r.K, !.in.block[i] = r.ret - FirstDataBlock],
                i + 1, new_numblks))
    ELSE IF i < KTFS_NUM_DIRECT_DATA_BLOCKS + PtrsPerBlock
    THEN With(IF i = KTFS_NUM_DIRECT_DATA_BLOCKS THEN find_available_block(s.K)
              ELSE [K |-> s.K, ret |-> s.in.indirect + FirstDataBlock], LAMBDA r0 :
            IF r0.ret = 0 THEN [s EXCEPT !.K = r0.K, !.ret = -EACCESS]
            ELSE With(r0.ret - FirstDataBlock, LAMBDA indirect :
                 With(find_available_block(r0.K), LAMBDA r :
                    set_file_size_loop(
                        IF r.ret = 0
                        THEN [s EXCEPT !.K = r.K, !.in.indirect = indirect, !.ret = -EACCESS]
                        ELSE [s EXCEPT
                                !.K = [r.K EXCEPT !.blk[indirect].ptr[i - KTFS_NUM_DIRECT_DATA_BLOCKS]
                                                        = r.ret - FirstDataBlock],
                                !.in.indirect = indirect],
                        i + 1, new_numblks))))
    ELSE With(i - (KTFS_NUM_DIRECT_DATA_BLOCKS + PtrsPerBlock), LAMBDA idx_dind :
         With(IF idx_dind % BLOCKS_PER_DIND = 0 THEN find_available_block(s.K)
              ELSE [K |-> s.K,
                    ret |-> s.in.dindirect[idx_dind \div BLOCKS_PER_DIND] + FirstDataBlock],
              LAMBDA r0 :
            IF r0.ret = 0 THEN [s EXCEPT !.K = r0.K, !.ret = -EACCESS]
            ELSE With(r0.ret - FirstDataBlock, LAMBDA dind :
                 With([s EXCEPT !.K = r0.K,
                                !.in.dindirect[idx_dind \div BLOCKS_PER_DIND] = dind], LAMBDA s1 :
                 With((idx_dind % BLOCKS_PER_DIND) \div PtrsPerBlock, LAMBDA slot :
                 With(IF idx_dind % PtrsPerBlock = 0 THEN find_available_block(s1.K)
                      ELSE [K |-> s1.K, ret |-> s1.K.blk[dind].ptr[slot] + FirstDataBlock],
                      LAMBDA r1 :
                    IF r1.ret = 0 THEN [s1 EXCEPT !.K = r1.K, !.ret = -EACCESS]
                    ELSE With([r1.K EXCEPT !.blk[dind].ptr[slot] = r1.ret - FirstDataBlock],
                              LAMBDA K2 :
                         With(K2.blk[dind].ptr[slot], LAMBDA ind_blk_idx :
                         With(find_available_block(K2), LAMBDA r :
                            set_file_size_loop(
                                IF r.ret = 0 THEN [s1 EXCEPT !.K = r.K, !.ret = -EACCESS]
                                ELSE [s1 EXCEPT
                                        !.K = [r.K EXCEPT !.blk[ind_blk_idx].ptr[idx_dind % PtrsPerBlock]
                                                                = r.ret - FirstDataBlock]],
                                i + 1, new_numblks))))))))))

\* set_file_size(io, arg) on the file f: [K, ret].
set_file_size(K, f, arg) ==
    IF arg > max_file_size THEN [K |-> K, ret |-> -EINVAL]
    ELSE With(set_file_size_loop(
                [K |-> K, in |-> K.inode[K.file[f].dentry.inode], ret |-> 0],
                NumBlks(K.file[f].size), NumBlks(arg)), LAMBDA s :
            IF s.ret # 0 THEN [K |-> s.K, ret |-> s.ret]
            ELSE [K |-> [s.K EXCEPT !.file[f].size = arg,
                                    !.inode[K.file[f].dentry.inode] = [s.in EXCEPT !.size = arg]],
                  ret |-> 0])

\* numblks of ktfs_readat and ktfs_writeat: the blocks the range touches.
xfer_numblks(pos, len) ==
    (len \div KTFS_BLKSZ)
    + (IF pos % KTFS_BLKSZ # 0 \/ len % KTFS_BLKSZ # 0 THEN 1 ELSE 0)
    + (IF len % KTFS_BLKSZ # 0 /\ (len % KTFS_BLKSZ) + (pos % KTFS_BLKSZ) > KTFS_BLKSZ
       THEN 1 ELSE 0)

\* blkoff and cpycnt of round i of the copy loop, bytes having been copied.
xfer_span(pos, len, numblks, i, bytes) ==
    IF numblks = 1 THEN [blkoff |-> pos % KTFS_BLKSZ, cpycnt |-> len]
    ELSE IF i = 0
    THEN [blkoff |-> pos % KTFS_BLKSZ, cpycnt |-> KTFS_BLKSZ - (pos % KTFS_BLKSZ)]
    ELSE IF i = numblks - 1 THEN [blkoff |-> 0, cpycnt |-> len - bytes]
    ELSE [blkoff |-> 0, cpycnt |-> KTFS_BLKSZ]

\* The file is in the open-file list.
ktfs_is_open(K, f) == \E n \in DOMAIN K.open_files : K.open_files[n] = f

\* The copy loop of ktfs_readat: the bytes copied so far.
RECURSIVE ktfs_readat_loop(_, _, _, _, _, _)
ktfs_readat_loop(K, in, pos, len, i, buf) ==
    With(xfer_numblks(pos, len), LAMBDA numblks :
        IF i >= numblks THEN buf
        ELSE With(file_block(K, in, i + (pos \div KTFS_BLKSZ)), LAMBDA blockidx :
             With(xfer_span(pos, len, numblks, i, Len(buf)), LAMBDA sp :
                ktfs_readat_loop(K, in, pos, len, i + 1,
                    buf \o [j \in 1 .. sp.cpycnt |-> K.blk[blockidx].data[sp.blkoff + j - 1]]))))

\* ktfs_readat(io, pos, buf, len) on the file f: [ret, buf].
ktfs_readat(K, f, pos, len) ==
    IF ~ktfs_is_open(K, f) THEN [ret |-> -EMFILE, buf |-> << >>]
    ELSE IF K.file[f].size < pos \/ len < 0 THEN [ret |-> -EINVAL, buf |-> << >>]
    ELSE IF len = 0 THEN [ret |-> 0, buf |-> << >>]
    ELSE With(IF len + pos > K.file[f].size THEN K.file[f].size - pos ELSE len, LAMBDA len1 :
            [ret |-> len1,
             buf |-> ktfs_readat_loop(K, K.inode[K.file[f].dentry.inode], pos, len1, 0, << >>)])

\* The copy loop of ktfs_writeat: s is [K, bytes].
RECURSIVE ktfs_writeat_loop(_, _, _, _, _, _)
ktfs_writeat_loop(s, in, pos, len, i, buf) ==
    With(xfer_numblks(pos, len), LAMBDA numblks :
        IF i >= numblks THEN s
        ELSE With(file_block(s.K, in, i + (pos \div KTFS_BLKSZ)), LAMBDA blockidx :
             With(xfer_span(pos, len, numblks, i, s.bytes), LAMBDA sp :
                ktfs_writeat_loop(
                    [K |-> [s.K EXCEPT !.blk[blockidx].data =
                                [o \in DOMAIN @ |->
                                    IF o >= sp.blkoff /\ o < sp.blkoff + sp.cpycnt
                                    THEN buf[s.bytes + (o - sp.blkoff) + 1] ELSE @[o]]],
                     bytes |-> s.bytes + sp.cpycnt],
                    in, pos, len, i + 1, buf))))

\* ktfs_writeat that reports the length it was asked to write, not the
\* length it wrote.
ktfs_writeat_full_count(K, f, pos, buf, len) ==
    IF ~ktfs_is_open(K, f) THEN [K |-> K, ret |-> -EMFILE]
    ELSE IF K.file[f].size < pos \/ len < 0 THEN [K |-> K, ret |-> -EINVAL]
    ELSE IF len = 0 THEN [K |-> K, ret |-> 0]
    ELSE With(IF len + pos > K.file[f].size THEN K.file[f].size - pos ELSE len, LAMBDA len1 :
            [K |-> ktfs_writeat_loop([K |-> K, bytes |-> 0],
                        K.inode[K.file[f].dentry.inode], pos, len1, 0, buf).K,
             ret |-> len])

\* ktfs_writeat(io, pos, buf, len) on the file f: [K, ret].
ktfs_writeat(K, f, pos, buf, len) ==
    IF ~ktfs_is_open(K, f) THEN [K |-> K, ret |-> -EMFILE]
    ELSE IF K.file[f].size < pos \/ len < 0 THEN [K |-> K, ret |-> -EINVAL]
    ELSE IF len = 0 THEN [K |-> K, ret |-> 0]
    ELSE With(IF len + pos > K.file[f].size THEN K.file[f].size - pos ELSE len, LAMBDA len1 :
            [K |-> ktfs_writeat_loop([K |-> K, bytes |-> 0],
                        K.inode[K.file[f].dentry.inode], pos, len1, 0, buf).K,
             ret |-> len1])

\* root_directory_inode.size / sizeof(struct ktfs_dir_entry)
dentries(K) == K.root_directory_inode.size

\* Entry i of the root directory, read from its direct blocks.
dir_entry(K, i) ==
    K.blk[K.root_directory_inode.block[i \div DENTRIES_PER_DIR]].dent[i % DENTRIES_PER_DIR]

\* The first entry of the root directory with this name, or -1.
dir_find(K, name) ==
    With({i \in 0 .. dentries(K) - 1 : SameName(name, dir_entry(K, i).name)}, LAMBDA hits :
        IF hits = {} THEN -1 ELSE CHOOSE i \in hits : \A j \in hits : i <= j)

\* An open file whose record has this name.
open_named(K, name) ==
    {n \in DOMAIN K.open_files : SameName(name, K.file[K.open_files[n]].dentry.name)}

\* ktfs_open(name, ioptr): [K, ret, f]; f is the new struct ktfs_file, with
\* its seekable wrapper.
ktfs_open(K, name) ==
    IF open_named(K, name) # {} THEN [K |-> K, ret |-> -EMFILE, f |-> 0]
    ELSE With(dir_find(K, name), LAMBDA i :
        IF i < 0 THEN [K |-> K, ret |-> -EMFILE, f |-> 0]
        ELSE With(K.nfiles + 1, LAMBDA target :
                [K |-> [K EXCEPT
                    !.nfiles = target,
                    !.file[target] = [used |-> TRUE, dentry |-> dir_entry(K, i),
                                      size |-> K.inode[dir_entry(K, i).inode].size],
                    !.seekio[target] = [open |-> TRUE, pos |-> 0,
                                        end |-> K.inode[dir_entry(K, i).inode].size],
                    !.open_files = <<target>> \o @],
                 ret |-> 0, f |-> target]))

\* ktfs_close(io) of the file target: [K, fault].  It looks at
\* open_files->next first, and walks the list until it finds the record;
\* kfree overwrites the file it frees.
ktfs_close(K, target) ==
    With(K.open_files, LAMBDA list :
    With([K EXCEPT !.file[target] = NoFile], LAMBDA K1 :
        IF list = << >> THEN [K |-> K, fault |-> TRUE]
        ELSE IF Len(list) = 1 \/ list[1] = target
        THEN [K |-> [K1 EXCEPT !.open_files = Tail(list)], fault |-> FALSE]
        ELSE IF \A n \in DOMAIN list : list[n] # target THEN [K |-> K, fault |-> TRUE]
        ELSE [K |-> [K1 EXCEPT !.open_files =
                        SelectSeq(list, LAMBDA x : x # target)],
              fault |-> FALSE]))

\* The inodes that no entry of the root directory names.
free_inodes(K) ==
    {j \in 0 .. NumInodes - 1 :
        j # root_inode_number /\ \A i \in 0 .. dentries(K) - 1 : dir_entry(K, i).inode # j}

\* ktfs_create(name): [K, ret].  zero tells whether a zero byte follows the
\* name in the uninitialized new_dentry.
ktfs_create(K, name, zero) ==
    IF open_named(K, name) # {} THEN [K |-> K, ret |-> -EMFILE]
    ELSE IF free_inodes(K) = {} THEN [K |-> K, ret |-> -ENOINODEBLKS]
    ELSE IF dentries(K) >= KTFS_NUM_DIRECT_DATA_BLOCKS * DENTRIES_PER_DIR
    THEN [K |-> K, ret |-> -EMFILE]
    ELSE With(CHOOSE j \in free_inodes(K) : \A x \in free_inodes(K) : j <= x, LAMBDA j :
         With(IF dentries(K) % DENTRIES_PER_DIR = 0 THEN find_available_block(K)
              ELSE [K |-> K, ret |-> 1], LAMBDA r :
            IF r.ret = 0 THEN [K |-> r.K, ret |-> -ENODATABLKS]
            ELSE With(IF dentries(K) % DENTRIES_PER_DIR = 0
                      THEN [r.K EXCEPT !.root_directory_inode.block[dentries(K) \div DENTRIES_PER_DIR]
                                            = r.ret - FirstDataBlock]
                      ELSE r.K, LAMBDA K1 :
                 [K |-> [K1 EXCEPT
                    !.root_directory_inode.size = @ + 1,
                    !.blk[K1.root_directory_inode.block[dentries(K) \div DENTRIES_PER_DIR]]
                        .dent[dentries(K) % DENTRIES_PER_DIR] =
                            [inode |-> j, name |-> Stored(name, zero)],
                    !.inode[j] = [@ EXCEPT !.size = 0]],
                  ret |-> 0])))

\* The loop of ktfs_delete that clears the bits of the blocks of a file:
\* s is [K, ret]; ret # 0 once clear_data_block refused a block.
RECURSIVE delete_blocks_loop(_, _, _, _)
delete_blocks_loop(s, in, i, numblks) ==
    IF i >= numblks \/ s.ret # 0 THEN s
    ELSE With(IF i < KTFS_NUM_DIRECT_DATA_BLOCKS + PtrsPerBlock THEN s
              ELSE With(i - (KTFS_NUM_DIRECT_DATA_BLOCKS + PtrsPerBlock), LAMBDA i_dind :
                   With(s.K.blk[in.dindirect[i_dind \div BLOCKS_PER_DIND]]
                            .ptr[(i_dind % BLOCKS_PER_DIND) \div PtrsPerBlock],
                        LAMBDA ind_blockidx :
                      IF i_dind % PtrsPerBlock = 0
                      THEN With(clear_data_block(s.K, FirstDataBlock + ind_blockidx), LAMBDA r :
                                [K |-> r.K, ret |-> IF r.ret < 0 THEN -EACCESS ELSE 0])
                      ELSE s)), LAMBDA s1 :
            IF s1.ret # 0 THEN s1
            ELSE With(clear_data_block(s1.K, FirstDataBlock + file_block(s1.K, in, i)), LAMBDA r :
                    delete_blocks_loop([K |-> r.K, ret |-> IF r.ret < 0 THEN -EACCESS ELSE 0],
                                       in, i + 1, numblks)))

\* num_dind_blocks of ktfs_delete
num_dind_blocks(numblks) ==
    With((numblks - (KTFS_NUM_DIRECT_DATA_BLOCKS + PtrsPerBlock)) \div BLOCKS_PER_DIND, LAMBDA n :
        IF n % BLOCKS_PER_DIND # 0 THEN n + 1 ELSE n)

\* The blocks of pointers of a file are cleared after its data blocks.
RECURSIVE delete_dind_loop(_, _, _, _)
delete_dind_loop(s, in, i, n) ==
    IF i >= n \/ s.ret # 0 THEN s
    ELSE With(clear_data_block(s.K, FirstDataBlock + in.dindirect[i]), LAMBDA r :
            delete_dind_loop([K |-> r.K, ret |-> IF r.ret # 0 THEN -EACCESS ELSE 0],
                             in, i + 1, n))

delete_file_blocks(K, in) ==
    With(NumBlks(in.size), LAMBDA numblks :
    With(delete_blocks_loop([K |-> K, ret |-> 0], in, 0, numblks), LAMBDA s :
        IF s.ret # 0 THEN s
        ELSE With(IF numblks > KTFS_NUM_DIRECT_DATA_BLOCKS
                  THEN With(clear_data_block(s.K, FirstDataBlock + in.indirect), LAMBDA r :
                            [K |-> r.K, ret |-> IF r.ret # 0 THEN -EACCESS ELSE 0])
                  ELSE s, LAMBDA s1 :
                IF s1.ret # 0 \/ numblks <= KTFS_NUM_DIRECT_DATA_BLOCKS + PtrsPerBlock THEN s1
                ELSE delete_dind_loop(s1, in, 0, num_dind_blocks(numblks)))))

\* ktfs_delete(name): [K, ret].  The entry is to be overwritten with the last
\* entry of the directory; the block written is the one numbered dentry_idx,
\* which holds the byte offset of the block of the entry, not its number.
ktfs_delete(K, name) ==
    With(IF open_named(K, name) = {} THEN K
         ELSE ktfs_close(K, K.open_files[CHOOSE n \in open_named(K, name) :
                                \A x \in open_named(K, name) : n <= x]).K, LAMBDA K0 :
    With(dir_find(K0, name), LAMBDA i :
        IF i < 0 THEN [K |-> K0, ret |-> -EMFILE]
        ELSE With(delete_file_blocks(K0, K0.inode[dir_entry(K0, i).inode]), LAMBDA s :
            IF s.ret # 0 THEN s
            ELSE With(dir_entry(s.K, dentries(K0) - 1), LAMBDA last_dentry :
                 With(KTFS_BLKSZ
                        * (FirstDataBlock + K0.root_directory_inode.block[i \div DENTRIES_PER_DIR]),
                      LAMBDA dentry_idx :
                 With(IF dentry_idx \in DataBlocks
                      THEN [s.K EXCEPT !.blk[dentry_idx].dent[i % DENTRIES_PER_DIR] = last_dentry]
                      ELSE s.K, LAMBDA K1 :
                 With(IF (dentries(K0) - 1) % DENTRIES_PER_DIR = 0
                      THEN clear_data_block(K1, FirstDataBlock
                            + K0.root_directory_inode.block[(dentries(K0) - 1) \div DENTRIES_PER_DIR])
                      ELSE [K |-> K1, ret |-> 0], LAMBDA r :
                    IF r.ret < 0 THEN [K |-> r.K, ret |-> -EACCESS]
                    ELSE [K |-> [r.K EXCEPT !.root_directory_inode.size = @ - 1],
                          ret |-> 0])))))))

(***************************************************************************)
(* A file is used through the seekable wrapper that ktfs_open returns.     *)
(***************************************************************************)
MaxXfer == 5                        \* longest buffer of a transfer
MaxWrites == 2                      \* writes of one run

FileIds == 1 .. MaxFiles

\* What the last call on the file system was and what it returned.
FsRet(op, f, name, pos, len, buf, ret, out) ==
    [op |-> op, f |-> f, name |-> name, pos |-> pos, len |-> len, buf |-> buf,
     ret |-> ret, out |-> out]

NoCall == FsRet("none", 0, "", 0, 0, << >>, 0, << >>)

\* The buffer of the tag-th write.
WriteBuf(tag, len) == [j \in 1 .. len |-> 10 * tag + j]

\* The writes made so far: every later call keeps the buffer of the last one.
Writes == IF fsret.buf = << >> THEN 0 ELSE fsret.buf[1] \div 10

\* The width of the model's unsigned long long: every position, end and
\* length of the model is far below it, so a difference wraps in the model
\* exactly when it wraps in 64 bits.
ULLONG_WRAP == 2^30

\* a - b in unsigned long long arithmetic.
ull_sub(a, b) == (a - b) % ULLONG_WRAP

\* seekio_cntl(io, IOCTL_SETEND, arg): [K, ret]
seekio_setend(K, f, arg) ==
    With(set_file_size(K, f, arg), LAMBDA r :
        [K |-> IF r.ret = 0 THEN [r.K EXCEPT !.seekio[f].end = arg] ELSE r.K,
         ret |-> r.ret])

\* seekio_write(io, buf, len): [K, ret]
seekio_write(K, f, buf, len) ==
    IF len = 0 THEN [K |-> K, ret |-> 0]
    ELSE With(K.seekio[f].pos, LAMBDA pos :
         With(IF ull_sub(K.seekio[f].end, pos) < len
              THEN With(set_file_size(K, f, pos + len), LAMBDA r :
                    [K |-> IF r.ret = 0 THEN [r.K EXCEPT !.seekio[f].end = pos + len] ELSE r.K,
                     ret |-> r.ret])
              ELSE [K |-> K, ret |-> 0], LAMBDA e :
            IF e.ret # 0 THEN e
            ELSE With(ktfs_writeat(e.K, f, pos, buf, len), LAMBDA w :
                    [K |-> [w.K EXCEPT !.seekio[f].pos = pos + (IF w.ret < 0 THEN 0 ELSE w.ret)],
                     ret |-> w.ret])))

\* seekio_writeat(io, pos, buf, len): [K, ret]
seekio_writeat(K, f, pos, buf, len) == ktfs_writeat(K, f, pos, buf, len)

\* seekio_readat(io, pos, buf, bufsz): [ret, buf]
seekio_readat(K, f, pos, bufsz) == ktfs_readat(K, f, pos, bufsz)

\* The bytes of the file, as readat returns them one at a time.
FileBytes(K, f) ==
    [o \in 0 .. K.file[f].size - 1 |-> seekio_readat(K, f, o, 1).buf[1]]

FsUnchanged == UNCHANGED <<schedVars, held, pipeVars, allocVars, mem, devVars>>

\* ioctl(io, IOCTL_SETEND, &end) on the handle of the file f.
FileSetEnd(f, end) ==
    /\ ktfs.mounted /\ ktfs.seekio[f].open
    /\ LET r == seekio_setend(ktfs, f, end)
       IN  /\ ktfs' = r.K
           /\ fsret' = FsRet("setend", f, "", end, 0, fsret.buf, r.ret, << >>)
    /\ FsUnchanged

\* iowriteat(io, pos, buf, len)
FileWriteAt(f, pos, len) ==
    /\ ktfs.mounted /\ ktfs.seekio[f].open
    /\ Writes < MaxWrites
    /\ LET buf == WriteBuf(Writes + 1, len)
           r == seekio_writeat(ktfs, f, pos, buf, len)
       IN  /\ ktfs' = r.K
           /\ fsret' = FsRet("writeat", f, "", pos, len, buf, r.ret, << >>)
    /\ FsUnchanged

\* iowrite(io, buf, len): its first call of seekio_write writes all the bytes
\* or fails.
FileWrite(f, len) ==
    /\ ktfs.mounted /\ ktfs.seekio[f].open
    /\ Writes < MaxWrites
    /\ LET buf == WriteBuf(Writes + 1, len)
           r == seekio_write(ktfs, f, buf, len)
       IN  /\ ktfs' = r.K
           /\ fsret' = FsRet("write", f, "", ktfs.seekio[f].pos, len, buf, r.ret, << >>)
    /\ FsUnchanged

\* ioreadat(io, pos, buf, bufsz)
FileReadAt(f, pos, len) ==
    /\ ktfs.mounted /\ ktfs.seekio[f].open
    /\ LET r == seekio_readat(ktfs, f, pos, len)
       IN  /\ ktfs' = ktfs
           /\ fsret' = FsRet("readat", f, "", pos, len, fsret.buf, r.ret, r.buf)
    /\ FsUnchanged

EndStep == 6                        \* the sizes asked of SETEND are its multiples

FileEnds == {e \in 0 .. max_file_size + EndStep : e % EndStep = 0}

\* One file has been created and opened on the mounted file system.
InitFile ==
    /\ InitKern
    /\ sie = FALSE
    /\ NoPipe
    /\ InitAlloc
    /\ ktfs = ktfs_open(ktfs_create(MountedKtfs, "a", TRUE).K, "a").K
    /\ fsret = NoCall
    /\ NoDev

\* The lengths of the transfers: inside a block, a whole block, and more
\* than a block.
XferLens == {1, KTFS_BLKSZ, MaxXfer}

\* The positions written: the first and the last byte of every block.
XferPos == {p \in 0 .. max_file_size : p % KTFS_BLKSZ \in {0, KTFS_BLKSZ - 1}}

\* The file is grown, never shrunk, and what was written is read back before
\* the next call.
NextFile ==
    \/ \E end \in FileEnds : ktfs.file[1].size <= end /\ FileSetEnd(1, end)
    \/ \E pos \in XferPos : \E len \in XferLens : FileWriteAt(1, pos, len)
    \/ \E len \in XferLens : FileWrite(1, len)
    \/ /\ fsret.op \in {"writeat", "write"}
       /\ \E len \in {fsret.len, MaxXfer} : FileReadAt(1, fsret.pos, len)

SpecFile == InitFile /\ [][NextFile]_vars

C15_WriteAtExtends ==
    [][ (fsret'.op = "writeat" /\ fsret' # fsret
            /\ fsret'.pos <= ktfs.file[fsret'.f].size
            /\ fsret'.pos + fsret'.len > ktfs.file[fsret'.f].size) =>
            /\ fsret'.ret = fsret'.len
            /\ ktfs'.file[fsret'.f].size = fsret'.pos + fsret'.len
            /\ ktfs'.seekio[fsret'.f].end = fsret'.pos + fsret'.len ]_vars

(***************************************************************************)
(* The root directory: files are created, opened, closed and deleted.      *)
(***************************************************************************)
DirRet(op, f, name, ret) == FsRet(op, f, name, 0, 0, << >>, ret, << >>)

\* fscreate(name).  The bytes that follow the name in new_dentry are whatever
\* the stack held.
DirCreate(name) ==
    /\ ktfs.mounted
    /\ ktfs.creates < MaxCreates
    /\ \E zero \in BOOLEAN :
        LET r == ktfs_create(ktfs, name, zero)
        IN  /\ ktfs' = [r.K EXCEPT !.creates = @ + 1]
            /\ fsret' = DirRet("create", 0, name, r.ret)
    /\ FsUnchanged

\* fsopen(name, &io)
DirOpen(name) ==
    /\ ktfs.mounted
    /\ ktfs.nfiles < MaxFiles
    /\ LET r == ktfs_open(ktfs, name)
       IN  /\ ktfs' = r.K
           /\ fsret' = DirRet("open", r.f, name, r.ret)
    /\ FsUnchanged

\* ioclose(io) of the handle of the file f: the wrapper holds the only
\* reference to itself, and seekio_close closes the backing file and frees
\* the wrapper.  After ktfs_delete freed the file, kfree has filled its
\* reference count with 0x11 bytes: ioclose(sio->bkgio) finds a count that
\* does not reach zero and does not call ktfs_close.
DirClose(f) ==
    /\ ktfs.mounted /\ ktfs.seekio[f].open
    /\ LET r == IF ktfs.file[f].used THEN ktfs_close(ktfs, f)
                ELSE [K |-> ktfs, fault |-> FALSE]
       IN  /\ ~r.fault
           /\ ktfs' = [r.K EXCEPT !.seekio[f] = NoSeekio]
           /\ fsret' = DirRet("close", f, "", 0)
    /\ FsUnchanged

\* fsdelete(name)
DirDelete(name) ==
    /\ ktfs.mounted
    /\ LET r == ktfs_delete(ktfs, name)
       IN  /\ ktfs' = r.K
           /\ fsret' = DirRet("delete", 0, name, r.ret)
    /\ FsUnchanged

\* The image that is mounted has an empty root directory.
InitDir ==
    /\ InitKern
    /\ sie = FALSE
    /\ NoPipe
    /\ InitAlloc
    /\ ktfs = MountedKtfs
    /\ fsret = NoCall
    /\ NoDev

DirFileSize == 13                   \* the size an empty file is grown to

\* A file that is open and not deleted may be grown.
NextDir ==
    \/ \E name \in FNames : DirCreate(name)
    \/ \E name \in FNames : DirOpen(name)
    \/ \E f \in FileIds : DirClose(f)
    \/ \E name \in FNames : DirDelete(name)
    \/ \E f \in FileIds :
            ktfs.file[f].used /\ ktfs.file[f].size = 0 /\ FileSetEnd(f, DirFileSize)

SpecDir == InitDir /\ [][NextDir]_vars

\* C13: create of a new name returns 0, and the open of the name that
\* follows succeeds with a file of length zero.
C13_CreateThenOpen ==
    [][ /\ (fsret'.op = "create" /\ fsret' # fsret
                /\ dir_find(ktfs, fsret'.name) < 0 /\ free_inodes(ktfs) # {}
                /\ dentries(ktfs) < KTFS_NUM_DIRECT_DATA_BLOCKS * DENTRIES_PER_DIR
                /\ Cardinality(ktfs.bitmap) < block_count) => fsret'.ret = 0
        /\ (fsret.op = "create" /\ fsret.ret = 0
                /\ fsret'.op = "open" /\ fsret'.name = fsret.name) =>
                    /\ fsret'.ret = 0
                    /\ ktfs'.seekio[fsret'.f].end = 0
                    /\ seekio_readat(ktfs', fsret'.f, 0, 1).ret = 0 ]_vars

\* The entries of the root directory that hold this name.
Entries(K, name) == {i \in 0 .. dentries(K) - 1 : SameName(name, dir_entry(K, i).name)}

\* C14: after delete(n) returned 0 for a name that had one entry, the name is
\* no longer in the root directory and an open(n) returns a negative error.
C14_DeleteThenOpenFails ==
    [][ (fsret'.op = "delete" /\ fsret'.ret = 0 /\ ktfs' # ktfs
            /\ Cardinality(Entries(ktfs, fsret'.name)) = 1) =>
            /\ Entries(ktfs', fsret'.name) = {}
            /\ ktfs_open(ktfs', fsret'.name).ret < 0 ]_vars

\* The files that have a record in the open-file list.
Records == {ktfs.open_files[n] : n \in DOMAIN ktfs.open_files}

\* C16: the open-file list holds at most one record per filename, and
\* exactly the records of the files whose handle is open.
C16_OpenListIsTheOpenFiles ==
    /\ \A m, n \in DOMAIN ktfs.open_files :
            (m # n) => ktfs.file[ktfs.open_files[m]].dentry.name.name
                            # ktfs.file[ktfs.open_files[n]].dentry.name.name
    /\ Records = {f \in FileIds : ktfs.seekio[f].open}

(***************************************************************************)
(* Kernel stacks.  create_thread takes one physical page for the stack of  *)
(* a new thread; the stacks of the main and the idle thread are static.    *)
(* The only free_phys_page of a stack is the statement after _thread_swtch *)
(* in running_thread_suspend, which the thread that was switched to runs   *)
(* when it resumes there.  A thread that runs for the first time starts at *)
(* _thread_startup and does not pass that statement.  thread_reclaim       *)
(* kfrees the struct thread, and with it the last pointer to the stack.    *)
(* stacks.st[t]: "static", "none", "live" (allocated) or "freed".          *)
(***************************************************************************)
Stacks0 ==
    [on |-> TRUE,
     st |-> [t \in Tids |-> IF t \in {MAIN_TID, IDLE_TID} THEN "static" ELSE "none"],
     twice |-> FALSE, early |-> FALSE]

\* create_thread: stack_page = alloc_phys_page() for every slot filled.
stack_alloc(k, k2, s) ==
    [s EXCEPT !.st = [t \in Tids |->
        IF k.thrtab[t] = NULL_THREAD /\ k2.thrtab[t] # NULL_THREAD THEN "live"
        ELSE s.st[t]]]

\* free_phys_page(old_thr->stack_lowest) of a thread in state old_state.
free_stack(s, old_thr, old_state) ==
    [s EXCEPT !.st[old_thr] = "freed",
              !.twice = @ \/ s.st[old_thr] = "freed",
              !.early = @ \/ old_state # "EXITED"]

\* The statements after _thread_swtch, run by a thread that resumes in
\* running_thread_suspend; old_thr is the thread switched away from.
stack_after_swtch(k, k2, s) ==
    IF k2.TP # k.TP /\ k.thrtab[k2.TP].started
       /\ k2.thrtab[k.TP].state = "EXITED"
    THEN free_stack(s, k.TP, k2.thrtab[k.TP].state)
    ELSE s

\* thread_reclaim: thrtab[tid] = NULL; kfree(thr).
stack_reclaim(k, k2, s) ==
    [s EXCEPT !.st = [t \in Tids |->
        IF k.thrtab[t] # NULL_THREAD /\ k2.thrtab[t] = NULL_THREAD THEN "none"
        ELSE s.st[t]]]

\* The stacks after the step of the kernel from k to k2.
stack_track(k, k2, s) ==
    stack_reclaim(k, k2, stack_after_swtch(k, k2, stack_alloc(k, k2, s)))

StackStep(k2) ==
    /\ SetKern(k2)
    /\ stacks' = stack_track(Kern, k2, stacks)
    /\ UNCHANGED <<held, pipeVars, allocVars, mem, fsVars, timer, vioblk, cache, fdtab>>

StkSpawn == AtRun /\ StackStep(thread_spawn_create(Kern))

StkSpawnInsert ==
    halted = "no" /\ Me.pc = "spawn_insert" /\ StackStep(thread_spawn_insert(Kern))

StkYield == AtRun /\ StackStep(running_thread_suspend(Kern))

StkExit == AtRun /\ StackStep(thread_exit_mark(Kern))

StkExitBroadcast ==
    halted = "no" /\ Me.pc = "exit_bcast" /\ StackStep(thread_exit_broadcast(Kern))

StkExitSuspend ==
    halted = "no" /\ Me.pc = "exit_suspend" /\ StackStep(thread_exit_suspend(Kern))

StkJoin(tid) == AtRun /\ StackStep(thread_join(Kern, tid))

StkJoinLoop ==
    halted = "no" /\ Me.pc = "join_loop" /\ StackStep(thread_join_loop(Kern))

StkIdleYield ==
    /\ halted = "no" /\ TP = IDLE_TID /\ ready_list.head # NULL
    /\ StackStep(running_thread_suspend(Kern))

\* thread_join is called with the id of a thread, or 0 for any child.
StkJoinArgs == {t \in 0 .. (NTHR - 1) : t = 0 \/ thrtab[t] # NULL_THREAD}

InitStack ==
    /\ InitKern
    /\ sie = TRUE
    /\ NoPipe
    /\ NoKtfs
    /\ NoTimer /\ NoVioblk /\ NoCache /\ NoFdtab
    /\ stacks = Stacks0
    /\ InitAlloc

NextStack ==
    \/ StkSpawn \/ StkSpawnInsert \/ StkYield
    \/ StkExit \/ StkExitBroadcast \/ StkExitSuspend
    \/ \E tid \in StkJoinArgs : StkJoin(tid)
    \/ StkJoinLoop
    \/ StkIdleYield

SpecStack == InitStack /\ [][NextStack]_vars

\* The step is the context switch away from a thread that has exited.
SwitchFromExited == TP' # TP /\ thrtab'[TP] # NULL_THREAD /\ thrtab'[TP].state = "EXITED"

\* C31: every thread that exits has its kernel stack page freed exactly
\* once, after the context switch away from it, whichever thread runs next
\* (one that resumes from a suspend or one that runs for the first time);
\* no stack of a thread that is not EXITED is freed and none is freed twice.
C31_ExitedStackFreedOnce ==
    /\ [][SwitchFromExited => stacks'.st[TP] = "freed"]_vars
    /\ [](~stacks.twice /\ ~stacks.early)

(***************************************************************************)
(* The block bitmap behind the cache.  find_available_block and            *)
(* clear_data_block reach the bitmap block through cache_get_block; the    *)
(* buffer they get is the cache node's own block, and what the device      *)
(* holds changes only when cache_release_block finds the node whose buffer *)
(* it was passed and the release is dirty.  Block BitmapPos of the device  *)
(* holds the set of block numbers whose bit is 1; the other blocks stand   *)
(* for the inode and data blocks that other operations get and release.    *)
(***************************************************************************)
BitmapPos == 1
MaxCalls == 3
\* The address of a buffer that is not the block of any cache node.
LocalBuf == 0

NoPend == [op |-> "none", b |-> 0, node |-> 0]

Bitmap0 ==
    [op |-> "bitmap",
     pend |-> [t \in CThreads |-> NoPend],
     last |-> [t |-> 0, op |-> "none", ret |-> 0, view |-> {}],
     owners |-> [j \in 0 .. block_count |-> 0],
     calls |-> 0]

\* cache_get_block with a read of the device that does not suspend.
cache_get(c, t, pos) ==
    With(cache_get_block(c, t, pos, Garbage, UINT64_MAX), LAMBDA c1 :
        IF c1.th[t].pc = "read" THEN cache_get_block_read(c1, t) ELSE c1)

\* The node whose block cache_get_block hands out for pos: the first node
\* of the list with that index, or the node whose lock the caller waits for.
got_node(c, t, pos) ==
    IF c.th[t].pc = "lock" THEN c.th[t].node
    ELSE CHOOSE n \in 1 .. Len(c.nodes) :
            c.nodes[n].idx = pos /\ \A i \in 1 .. n - 1 : c.nodes[i].idx # pos

\* cache_release_block(cache, pblk, dirty): the loop acts on the node whose
\* ptr is pblk, and on no node when pblk is not the block of a node.
cache_release_ptr(c, t, pblk, dirty) ==
    IF pblk \in 1 .. Len(c.nodes) THEN cache_release_block(c, t, pblk, dirty)
    ELSE c

\* find_available_block after cache_get_block returned the block of node n.
find_available_block_scan(c, t, n) ==
    With(c.nodes[n].data, LAMBDA bits :
    With(CHOOSE j \in 0 .. block_count + 1 :
            j \notin bits /\ \A i \in 0 .. j - 1 : i \in bits, LAMBDA j :
        IF block_count < j
        THEN [c |-> cache_release_ptr(c, t, n, FALSE), ret |-> 0]
        ELSE [c |-> cache_release_ptr([c EXCEPT !.nodes[n].data = bits \cup {j}],
                                      t, LocalBuf, TRUE),
              ret |-> j]))

\* clear_data_block after cache_get_block returned the block of node n.
clear_data_block_bit(c, t, n, b) ==
    [c |-> cache_release_ptr([c EXCEPT !.nodes[n].data = @ \ {b}], t, n, TRUE),
     ret |-> 0]

BmUnchanged ==
    UNCHANGED <<schedVars, held, pipeVars, allocVars, mem, ktfs,
                timer, vioblk, fdtab, stacks>>

Idle(t) == cache.th[t].pc = "idle" /\ fsret.pend[t].op = "none"

\* Thread t calls find_available_block: up to the return of cache_get_block.
BmFind(t) ==
    /\ Idle(t) /\ fsret.calls < MaxCalls
    /\ LET c == cache_get(cache, t, BitmapPos) IN
       /\ cache' = c
       /\ fsret' = [fsret EXCEPT !.calls = @ + 1,
                        !.pend[t] = [op |-> "find", b |-> 0,
                                     node |-> got_node(c, t, BitmapPos)]]
    /\ BmUnchanged

\* Thread t calls clear_data_block(b).
BmClear(t, b) ==
    /\ Idle(t) /\ fsret.calls < MaxCalls
    /\ IF b < FirstDataBlock \/ block_count < b
       THEN /\ fsret' = [fsret EXCEPT !.calls = @ + 1,
                            !.last = [t |-> t, op |-> "clear", ret |-> -ENOTSUP,
                                      view |-> {}]]
            /\ UNCHANGED cache
       ELSE LET c == cache_get(cache, t, BitmapPos) IN
            /\ cache' = c
            /\ fsret' = [fsret EXCEPT !.calls = @ + 1, !.pend[t] =
                            [op |-> "clear", b |-> b,
                             node |-> got_node(c, t, BitmapPos)]]
    /\ BmUnchanged

\* The rest of the call, once cache_get_block has returned.
BmFinish(t) ==
    /\ cache.th[t].pc = "idle" /\ fsret.pend[t].op # "none"
    /\ cache.last_release < MaxRel
    /\ LET p == fsret.pend[t]
           r == IF p.op = "find" THEN find_available_block_scan(cache, t, p.node)
                ELSE clear_data_block_bit(cache, t, p.node, p.b)
       IN
       /\ cache' = r.c
       /\ fsret' = [fsret EXCEPT
                !.pend[t] = NoPend,
                !.last = [t |-> t, op |-> p.op, ret |-> r.ret,
                          view |-> cache.nodes[p.node].data],
                !.owners = IF p.op = "find"
                           THEN (IF r.ret # 0 THEN [@ EXCEPT ![r.ret] = @ + 1] ELSE @)
                           ELSE [@ EXCEPT ![p.b] = 0]]
    /\ BmUnchanged

\* Another operation of the file system gets a block other than the bitmap,
BmGet(t, pos) ==
    /\ Idle(t) /\ pos # BitmapPos
    /\ \A h \in cache.got[t] : h.pos # pos
    /\ cache' = cache_get(cache, t, pos)
    /\ UNCHANGED fsret
    /\ BmUnchanged

\* and releases it.
BmRelease(t, n, dirty) ==
    /\ Idle(t)
    /\ \E h \in cache.got[t] : h.node = n /\ h.pos # BitmapPos
    /\ cache.nodes[n].idx # BitmapPos
    /\ CacheRelease(t, n, dirty)

\* The lock that t waits for has been released.
BmLock(t) == CacheLock(t)

InitBitmap ==
    /\ InitKern
    /\ sie = FALSE
    /\ NoPipe
    /\ InitAlloc
    /\ NoTimer /\ NoVioblk /\ NoFdtab /\ NoStacks
    /\ ktfs = [mounted |-> FALSE]
    /\ fsret = Bitmap0
    /\ cache = [Cache0 EXCEPT !.disk = [p \in CBlocks |->
                    IF p = BitmapPos THEN 0 .. FirstDataBlock - 1 ELSE {}]]

ClearArgs == {FirstDataBlock - 1, FirstDataBlock, FirstDataBlock + 1}

NextBitmap ==
    \/ \E t \in CThreads : BmFind(t)
    \/ \E t \in CThreads, b \in ClearArgs : BmClear(t, b)
    \/ \E t \in CThreads : BmFinish(t)
    \/ \E t \in CThreads, pos \in CBlocks : BmGet(t, pos)
    \/ \E t \in CThreads, n \in 1 .. CACHE_SZ, dirty \in BOOLEAN : BmRelease(t, n, dirty)
    \/ \E t \in CThreads : BmLock(t)

SpecBitmap == InitBitmap /\ [][NextBitmap]_vars

\* The step is the return of find_available_block.
FindReturns ==
    \E t \in CThreads : fsret.pend[t].op = "find" /\ fsret'.pend[t].op = "none"

\* C32: find_available_block returns the lowest block whose bit is 0 and
\* never block 0 as a block, sets the bit and writes the bitmap block to
\* the device, and no block is handed out again before clear_data_block
\* has cleared its bit.
C32_AllocationIsRecorded ==
    /\ [][FindReturns =>
            LET j == fsret'.last.ret
                view == fsret'.last.view IN
            /\ j # 0 => /\ j \notin view
                        /\ \A i \in 0 .. j - 1 : i \in view
                        /\ j \in cache'.disk[BitmapPos]
            /\ j = 0 => \A i \in 0 .. block_count : i \in view]_vars
    /\ [](\A j \in 0 .. block_count : fsret.owners[j] <= 1)

\* Thread t is between operations: no call of its own is in progress and it
\* has returned every block that it got for an operation.
Returned(t) == Idle(t) /\ \A h \in cache.got[t] : h.pos = BitmapPos

\* C37: every cache_get_block of a file system operation is matched by a
\* cache_release_block of the same buffer before the operation returns, so
\* a thread that is between operations owns the lock of no cache node.
C37_NoLockHeldAfterReturn ==
    \A t \in CThreads : Returned(t) =>
        \A n \in 1 .. Len(cache.nodes) : cache.nodes[n].owner # t

(***************************************************************************)
(* The root directory across create and delete.                            *)
(***************************************************************************)
\* The step is a ktfs_delete that returned 0.
DeleteDone == fsret'.op = "delete" /\ fsret'.ret = 0 /\ ktfs' # ktfs

\* C33: delete(name) removes the named entry by swap-remove: the slot of the
\* deleted entry holds the former last entry, the directory is one entry
\* (16 bytes) shorter, and every other file of the directory is still found,
\* with the inode number and the inode it had.
C33_DeleteIsSwapRemove ==
    [][ DeleteDone =>
            LET i == dir_find(ktfs, fsret'.name)
                last == dentries(ktfs) - 1 IN
            /\ dentries(ktfs') = dentries(ktfs) - 1
            /\ i < last => dir_entry(ktfs', i) = dir_entry(ktfs, last)
            /\ \A n \in FNames \ {fsret'.name} :
                    dir_find(ktfs, n) >= 0 =>
                        /\ dir_find(ktfs', n) >= 0
                        /\ dir_entry(ktfs', dir_find(ktfs', n)).inode
                                = dir_entry(ktfs, dir_find(ktfs, n)).inode
                        /\ ktfs'.inode[dir_entry(ktfs, dir_find(ktfs, n)).inode]
                                = ktfs.inode[dir_entry(ktfs, dir_find(ktfs, n)).inode] ]_vars

\* The name that a directory entry holds is one of the names of the model.
EntryNamed(K, i, n) == SameName(n, dir_entry(K, i).name)

\* C38: no two entries of the root directory have the same name or the same
\* inode number, and a create of a name that is in the directory fails and
\* adds no entry.
C38_DirectoryEntriesAreDistinct ==
    /\ [](ktfs.mounted =>
            \A i, j \in 0 .. dentries(ktfs) - 1 : i # j =>
                /\ dir_entry(ktfs, i).inode # dir_entry(ktfs, j).inode
                /\ \A n \in FNames : ~(EntryNamed(ktfs, i, n) /\ EntryNamed(ktfs, j, n)))
    /\ [][ (fsret'.op = "create" /\ fsret' # fsret
                /\ dir_find(ktfs, fsret'.name) >= 0) =>
                    /\ fsret'.ret < 0
                    /\ dentries(ktfs') = dentries(ktfs) ]_vars

(***************************************************************************)
(* Sleepers and the timer interrupt.  The time goes on and no thread       *)
(* keeps the processor for ever.                                           *)
(***************************************************************************)
ThreadRuns ==
    \/ SpawnInsert \/ Yield \/ SleepReturn
    \/ CondWaitMark \/ CondWaitInsert \/ CondWaitSuspend
    \/ IdleYield \/ IdleWfi

\* The threads sleep from now on, for one tick or more.
NextSleep ==
    \/ Spawn \/ ThreadRuns
    \/ \E tcnt \in 1 .. MaxTcnt : Sleep(tcnt, 0)
    \/ Tick
    \/ TimerIntr

SpecSleep == InitTimer /\ [][NextSleep]_vars

SpecSleepFair ==
    /\ SpecSleep
    /\ WF_vars(Tick) /\ WF_vars(ThreadRuns)

OnSleepList(t) == \E i \in DOMAIN timer.sleep_list : timer.sleep_list[i].tid = t

\* The alarm of thread t is on the sleep list with a wake time that the
\* time reaches.
DueSleeper(t) ==
    \E i \in DOMAIN timer.sleep_list :
        timer.sleep_list[i].tid = t /\ timer.sleep_list[i].twake <= MaxTime

\* Thread t has been taken off the sleep list and made ready.
MadeReady(t) ==
    /\ ~OnSleepList(t)
    /\ thrtab[t] # NULL_THREAD /\ thrtab[t].state \in {"READY", "RUNNING"}

\* The timer interrupt is enabled and its time has come: the interrupt is
\* taken as soon as the running thread has interrupts enabled.
TimerPending == timer.stie /\ timer.now >= timer.stcmp

InAlarmSleep(t) ==
    /\ thrtab[t] # NULL_THREAD
    /\ \/ thrtab[t].pc \in {"cw_mark", "cw_insert", "cw_suspend"}
          /\ thrtab[t].ret = "sleep_ret"
       \/ thrtab[t].pc = "sleep_ret" /\ thrtab[t].state = "WAITING"

\* C35: after every insertion of alarm_sleep and every timer interrupt the
\* sleep list is sorted by wake time, the alarm of every sleeping thread is
\* on the list once and no other alarm is, and the comparator holds the wake
\* time of the head, or the value for never when the list is empty.
C35_SleepListAndComparator ==
    timer.on =>
        /\ \A i, j \in DOMAIN timer.sleep_list :
                i < j => timer.sleep_list[i].twake <= timer.sleep_list[j].twake
        /\ \A t \in Tids :
                Cardinality({i \in DOMAIN timer.sleep_list : timer.sleep_list[i].tid = t})
                    = IF InAlarmSleep(t) THEN 1 ELSE 0
        /\ timer.stcmp = IF timer.sleep_list # << >> THEN Head(timer.sleep_list).twake
                         ELSE UINT64_MAX

\* A timer interrupt has woken one sleeper and left two on the list, with
\* different wake times.
C35_Witness ==
    /\ timer.on
    /\ Len(timer.log) = 1
    /\ Len(timer.sleep_list) = 2
    /\ timer.sleep_list[1].twake < timer.sleep_list[2].twake
    /\ timer.stcmp = timer.sleep_list[1].twake

(***************************************************************************)
(* Page faults on pages that are mapped.                                   *)
(***************************************************************************)
\* vma has a valid leaf entry at level 0 in the active space.
MappedAt(mm, root, vma) ==
    Translate(mm, root, vma).lvl = 0 /\ PTE_VALID(Translate(mm, root, vma).pte)

\* C36: the handler of user page faults leaves a mapping that exists as it
\* is: after a fault at an address that has a valid leaf entry, the entry
\* names the same physical page with the same flags and the page holds what
\* it held, as long as the process goes on in its space.
C36_FaultKeepsMapping ==
    [][ \A kind \in Kinds : \A vma \in Addrs : \A lands \in BOOLEAN :
            (/\ InUser
             /\ ~UserCan(mem, satp, vma, kind)
             /\ MappedAt(mem, satp, vma)
             /\ SetKM(handle_page_fault(KM, vma, lands))
             /\ satp' = satp /\ halted' = "no")
            => /\ Translate(mem', satp, vma).pte = Translate(mem, satp, vma).pte
               /\ mem'[Translate(mem, satp, vma).pte.ppn]
                        = mem[Translate(mem, satp, vma).pte.ppn] ]_vars

(***************************************************************************)
(* A fork that fails.                                                      *)
(***************************************************************************)
\* The step is a fork system call that returned a negative value.
ForkFailed ==
    /\ InUser
    /\ SetKM(handle_syscall(KM, [nr |-> SYSCALL_FORK, fd |-> 0, found |-> FALSE]))
    /\ thrtab'[TP] # NULL_THREAD /\ thrtab'[TP].tfr.a0 < 0

\* C39: a process_fork that fails returns a negative error and leaves
\* nothing behind: the slots of the process table that were free are free,
\* no reference count is higher than before and no page is held that was
\* free before.
C39_FailedForkLeavesNothing ==
    [][ ForkFailed =>
            /\ \A i \in FreeProcs(Kern) : proctab'[i] = NoProc
            /\ ioref' <= ioref
            /\ SumCounts(free_chunk_list') >= SumCounts(free_chunk_list) ]_vars

(***************************************************************************)
(* The position and the end of the seekable wrapper.                       *)
(***************************************************************************)
\* ioblksz of a file of the file system, which create_seekable_io stores in
\* sio->blksz.
seekio_blksz == 1

\* seekio_cntl(io, IOCTL_SETPOS, arg): [K, ret]
seekio_setpos(K, f, arg) ==
    IF arg % seekio_blksz # 0 THEN [K |-> K, ret |-> -EINVAL]
    ELSE IF arg > K.seekio[f].end THEN [K |-> K, ret |-> -EINVAL]
    ELSE [K |-> [K EXCEPT !.seekio[f].pos = arg], ret |-> 0]

\* seekio_read(io, buf, bufsz): [K, ret, buf, left], left being the end - pos
\* that the function computes.
seekio_read(K, f, bufsz) ==
    With(K.seekio[f].pos, LAMBDA pos :
    With(ull_sub(K.seekio[f].end, pos), LAMBDA left :
    With(IF left < bufsz THEN left ELSE bufsz, LAMBDA bufsz1 :
        IF bufsz1 = 0 THEN [K |-> K, ret |-> 0, buf |-> << >>, left |-> left]
        ELSE IF bufsz1 < seekio_blksz
        THEN [K |-> K, ret |-> -EINVAL, buf |-> << >>, left |-> left]
        ELSE With(ktfs_readat(K, f, pos, bufsz1 - (bufsz1 % seekio_blksz)), LAMBDA r :
                [K |-> [K EXCEPT !.seekio[f].pos = pos + (IF r.ret < 0 THEN 0 ELSE r.ret)],
                 ret |-> r.ret, buf |-> r.buf, left |-> left]))))

\* ioctl(io, IOCTL_SETPOS, &pos) on the handle of the file f.
FileSetPos(f, pos) ==
    /\ ktfs.mounted /\ ktfs.seekio[f].open
    /\ LET r == seekio_setpos(ktfs, f, pos)
       IN  /\ ktfs' = r.K
           /\ fsret' = FsRet("setpos", f, "", pos, 0, fsret.buf, r.ret, << >>)
    /\ FsUnchanged

\* ioread(io, buf, bufsz) on the handle of the file f; the call records in
\* len the end - pos that seekio_read computed.
FileRead(f, bufsz) ==
    /\ ktfs.mounted /\ ktfs.seekio[f].open
    /\ LET r == seekio_read(ktfs, f, bufsz)
       IN  /\ ktfs' = r.K
           /\ fsret' = FsRet("read", f, "", ktfs.seekio[f].pos, r.left, fsret.buf,
                             r.ret, r.buf)
    /\ FsUnchanged

\* The positions asked of SETPOS.
SeekPos == 0 .. MaxXfer + 1

\* The ends asked of SETEND: the empty file and one size to grow to and to
\* shrink from.
SeekEnds == {0, EndStep}

MaxSeekBlocks == 4                  \* data blocks in use when the last call that grows starts

\* A block may still be taken by a call that grows the file.
MayGrow == Cardinality(ktfs.bitmap) < FirstDataBlock + MaxSeekBlocks

\* The file is written, read, resized either way and repositioned.
NextSeek ==
    \/ \E end \in SeekEnds : MayGrow /\ FileSetEnd(1, end)
    \/ \E pos \in SeekPos : FileSetPos(1, pos)
    \/ \E len \in XferLens : MayGrow /\ FileWrite(1, len)
    \/ \E len \in XferLens : FileRead(1, len)

SpecSeek == InitFile /\ [][NextSeek]_vars

\* The step is a call of op on the wrapper.
SeekCall(op) == fsret' # fsret /\ fsret'.op = op

\* C40: the position of a seekable wrapper never exceeds its end, whatever
\* reads, writes, SETPOS and SETEND (a shrinking one included) were made; a
\* SETPOS that is rejected changes nothing; and a read computes a remaining
\* length that is end - pos, neither negative nor wrapped, and returns no
\* byte at or beyond end.
C40_PositionWithinEnd ==
    /\ [](ktfs.seekio[1].open => ktfs.seekio[1].pos <= ktfs.seekio[1].end)
    /\ [][ (SeekCall("setpos") /\ fsret'.ret # 0) => ktfs' = ktfs ]_vars
    /\ [][ SeekCall("read") =>
             /\ fsret'.len = ktfs.seekio[1].end - ktfs.seekio[1].pos
             /\ \A j \in 1 .. Len(fsret'.out) : fsret'.pos + j - 1 < ktfs.seekio[1].end ]_vars
====
